---- MODULE Spec2Model ----
(***************************************************************************)
(* Model of the threat-pattern security-scanning engine of the backend     *)
(* (backend/src/security-engine.js): the catalog loader, the line/context  *)
(* and call-flow matchers, the scorer and the economic and MEV analyzers.  *)
(* Source texts are TLA+ strings; the string operations of the code        *)
(* (includes, split, trim, startsWith, slice, join) are modelled by what   *)
(* they compute on the characters.                                         *)
(***************************************************************************)
EXTENDS Integers, Sequences, FiniteSets, TLC

VARIABLES
    threatsFile,   \* the persisted catalog document at THREATS_PATH
    op,            \* the engine call the caller made last, "idle" when none
    source,        \* the source text passed to that call
    ret,           \* what that call did: the value it returned, or that it threw
    prev,          \* what the call before it did, when scanMoveSource is called
                   \* again on the same source text
    openaiKey,     \* whether OPENAI_API_KEY is set in the environment of the server
    defaultFile,   \* the file at DEFAULT_MOVE_PATH
    apiPc,         \* where the handler of the request in progress stands
    request,       \* the request in progress
    response,      \* the response sent for it
    effects,       \* what the handler did for it: model call, scan, file write
    runs,          \* the analyses of the editor extension, by run
    diagnostics,   \* the diagnostic collection of the extension, by document
    panelIssues    \* the issues held by the side panel

\* the variables of the express server
serverVars == <<openaiKey, defaultFile, apiPc, request, response, effects>>

\* the variables of the editor extension
pluginVars == <<runs, diagnostics, panelIssues>>

\* what the editor extension shows
displayVars == <<diagnostics, panelIssues>>

vars == <<threatsFile, op, source, ret, prev, serverVars, pluginVars>>

----------------------------------------------------------------------------
(* Bounds of the model *)

\* greatest number of lines of a source text
MaxLines == 2

\* number of lines of the source texts that are longer than a context window
MaxWindowLines == 17

\* greatest value of the clock read by Date.now() and new Date()
MaxClock == 2

\* greatest number of analyses of the editor extension in progress at a time
MaxRuns == 2

----------------------------------------------------------------------------
(* String primitives of the JavaScript runtime *)

\* String.prototype.includes: sub occurs in s at some position
Includes(s, sub) ==
    \E i \in 1..(Len(s) - Len(sub) + 1) : SubSeq(s, i, i + Len(sub) - 1) = sub

\* String.prototype.startsWith
StartsWith(s, p) ==
    Len(s) >= Len(p) /\ SubSeq(s, 1, Len(p)) = p

IsSpace(c) == c \in {" ", "\t", "\r", "\n"}

\* String.prototype.trim: white space removed at both ends
RECURSIVE TrimStart(_)
TrimStart(s) ==
    IF Len(s) > 0 /\ IsSpace(SubSeq(s, 1, 1)) THEN TrimStart(SubSeq(s, 2, Len(s))) ELSE s

RECURSIVE TrimEnd(_)
TrimEnd(s) ==
    IF Len(s) > 0 /\ IsSpace(SubSeq(s, Len(s), Len(s)))
    THEN TrimEnd(SubSeq(s, 1, Len(s) - 1)) ELSE s

Trim(s) == TrimEnd(TrimStart(s))

\* position of the first line feed of s, 0 when there is none
RECURSIVE IndexOfNewline(_, _)
IndexOfNewline(s, i) ==
    IF i > Len(s) THEN 0
    ELSE IF SubSeq(s, i, i) = "\n" THEN i
    ELSE IndexOfNewline(s, i + 1)

\* String.prototype.split('\n'): the empty string gives one empty line
RECURSIVE SplitLines(_)
SplitLines(s) ==
    LET k == IndexOfNewline(s, 1) IN
    IF k = 0 THEN <<s>>
    ELSE <<SubSeq(s, 1, k - 1)>> \o SplitLines(SubSeq(s, k + 1, Len(s)))

\* Array.prototype.join(sep) on an array of strings
RECURSIVE Join(_, _)
Join(parts, sep) ==
    IF Len(parts) = 0 THEN ""
    ELSE IF Len(parts) = 1 THEN parts[1]
    ELSE parts[1] \o sep \o Join(Tail(parts), sep)

\* Array.prototype.slice(from, to) with 0-based from (inclusive), to (exclusive)
Slice(arr, from, to) == SubSeq(arr, from + 1, to)

\* String.prototype.replace(pat, rep) with a string pattern: the FIRST
\* occurrence only
RECURSIVE IndexOf(_, _, _)
IndexOf(s, sub, i) ==
    IF i + Len(sub) - 1 > Len(s) THEN 0
    ELSE IF SubSeq(s, i, i + Len(sub) - 1) = sub THEN i
    ELSE IndexOf(s, sub, i + 1)

Replace(s, pat, rep) ==
    LET k == IndexOf(s, pat, 1) IN
    IF k = 0 THEN s
    ELSE SubSeq(s, 1, k - 1) \o rep \o SubSeq(s, k + Len(pat), Len(s))

Max(a, b) == IF a >= b THEN a ELSE b
Min(a, b) == IF a <= b THEN a ELSE b

\* a call that returned value v, and a call that threw
Returned(v) == [raised |-> FALSE, value |-> v]
Thrown == [raised |-> TRUE, value |-> "TypeError"]

----------------------------------------------------------------------------
(* The persisted catalog: documents the file at THREATS_PATH may hold *)

FnPattern(fname, checks) ==
    [function_name |-> fname,
     has_function_calls |-> FALSE, function_calls |-> <<>>,
     has_missing_checks |-> TRUE, missing_checks |-> checks]

CallPattern(calls, checks) ==
    [function_name |-> "",
     has_function_calls |-> TRUE, function_calls |-> calls,
     has_missing_checks |-> TRUE, missing_checks |-> checks]

\* a pattern with function_calls and without a member missing_checks
CallPatternOnly(calls) ==
    [function_name |-> "",
     has_function_calls |-> TRUE, function_calls |-> calls,
     has_missing_checks |-> FALSE, missing_checks |-> <<>>]

\* a pattern of another shape (loop_keywords, resource_name): none of the
\* fields the engine reads
OtherPattern ==
    [function_name |-> "",
     has_function_calls |-> FALSE, function_calls |-> <<>>,
     has_missing_checks |-> FALSE, missing_checks |-> <<>>]

\* a pattern keyed on a resource, with checks declared
ResourcePattern(checks) ==
    [function_name |-> "",
     has_function_calls |-> FALSE, function_calls |-> <<>>,
     has_missing_checks |-> TRUE, missing_checks |-> checks]

Rule(id, severity, pattern) ==
    [id |-> id, severity |-> severity, has_pattern |-> TRUE, pattern |-> pattern,
     recommendation |-> "Add the missing checks", fix |-> "add assert",
     exploit_example |-> "", cve_reference |-> ""]

\* a catalog in the shape of the shipped one
CatalogMain ==
    << Rule("open_mint_function", "high", FnPattern("mint", <<"signer_check">>)),
       Rule("no_max_supply_check", "medium", FnPattern("mint", <<"max_supply_check">>)),
       Rule("unchecked_withdraw", "critical",
            FnPattern("withdraw", <<"signer_check", "reentrancy_guard">>)),
       Rule("flashloan_price_oracle_exploit", "critical",
            CallPattern(<<"flash_swap", "get_price", "repay">>,
                        <<"slippage_guard", "oracle_update_guard">>)),
       [Rule("cetus_shift_overflow", "high", FnPattern("checked_shlw", <<"shift_limit">>))
           EXCEPT !.exploit_example = "Cetus", !.cve_reference = "CVE-1"],
       Rule("unbounded_loop", "medium", OtherPattern),
       Rule("unprotected_resource", "critical",
            ResourcePattern(<<"signer_check", "slippage_guard">>)) >>

\* several rules keyed on the same function, of every severity
CatalogHeavy ==
    << Rule("open_mint_function", "high",
            FnPattern("mint", <<"signer_check", "max_supply_check">>)),
       Rule("mint_without_cap", "high", FnPattern("mint", <<"max_supply_check">>)),
       Rule("mint_reentrancy", "medium", FnPattern("mint", <<"reentrancy_guard">>)),
       Rule("mint_type_confusion", "medium", FnPattern("mint", <<"type_verification">>)),
       Rule("mint_low", "low", FnPattern("mint", <<"reentrancy_guard">>)),
       Rule("mint_shift_overflow", "high",
            FnPattern("mint", <<"shift_limit", "slippage_guard">>)),
       Rule("unchecked_withdraw", "critical",
            FnPattern("withdraw", <<"signer_check", "reentrancy_guard">>)),
       Rule("reentrancy_via_callback", "critical",
            FnPattern("withdraw", <<"reentrancy_guard">>)) >>

\* call-flow rules with 0, 1, 2, 3, 4 and 10 tokens
CatalogFlows ==
    << Rule("flow_0", "low", CallPattern(<<>>, <<"slippage_guard">>)),
       Rule("flow_1", "low", CallPattern(<<"repay">>, <<"slippage_guard">>)),
       Rule("flow_2", "medium", CallPattern(<<"flash_swap", "repay">>, <<"slippage_guard">>)),
       Rule("flow_3", "medium",
            CallPattern(<<"flash_swap", "get_price", "repay">>, <<"slippage_guard">>)),
       Rule("flow_4", "high",
            CallPattern(<<"flash_swap", "get_price", "repay", "borrow">>,
                        <<"slippage_guard">>)),
       Rule("flow_10", "low",
            CallPattern(<<"flash_swap", "flash_swap", "flash_swap", "flash_swap",
                          "get_price", "get_price", "get_price",
                          "borrow", "borrow", "borrow">>, <<"slippage_guard">>)) >>

\* a call-flow rule that declares a check of the line/context matcher and a
\* check whose name has two underscores, a call-flow rule without
\* missing_checks and one with an empty list
CatalogGuarded ==
    << Rule("unguarded_repay", "high",
            CallPattern(<<"repay">>, <<"signer_check", "oracle_update_guard">>)),
       Rule("repay_flow", "medium", CallPatternOnly(<<"repay">>)),
       Rule("repay_flow_unchecked", "medium", CallPattern(<<"repay">>, <<>>)) >>

\* rules the catalog tests would fail: a severity outside the four values, an
\* empty id, an id used twice, a null pattern, an empty recommendation and
\* an empty fix
CatalogInvalid ==
    << Rule("urgent_mint", "urgent", FnPattern("mint", <<"signer_check">>)),
       Rule("", "high", FnPattern("mint", <<"signer_check">>)),
       Rule("twice", "medium", FnPattern("withdraw", <<"reentrancy_guard">>)),
       Rule("twice", "medium", CallPattern(<<"repay">>, <<"slippage_guard">>)),
       [Rule("null_pattern", "high", OtherPattern) EXCEPT !.has_pattern = FALSE],
       [Rule("no_recommendation", "critical",
             FnPattern("withdraw", <<"signer_check">>))
           EXCEPT !.recommendation = ""],
       [Rule("no_fix", "critical", CallPattern(<<"repay">>, <<"slippage_guard">>))
           EXCEPT !.fix = ""] >>

Document(threats) == [has_threats |-> TRUE, threats |-> threats]

ReadableFile(doc) == [readable |-> TRUE, parses |-> TRUE, doc |-> doc]

\* the file cannot be read (readFileSync throws)
MissingFile == [readable |-> FALSE, parses |-> FALSE, doc |-> Document(<<>>)]

\* the file is read and is not JSON (JSON.parse throws)
MalformedFile == [readable |-> TRUE, parses |-> FALSE, doc |-> Document(<<>>)]

\* the file is JSON and has no "threats" member
NoThreatsFile ==
    [readable |-> TRUE, parses |-> TRUE,
     doc |-> [has_threats |-> FALSE, threats |-> <<>>]]

ThreatFiles ==
    { ReadableFile(Document(CatalogMain)), ReadableFile(Document(CatalogHeavy)),
      ReadableFile(Document(CatalogFlows)), ReadableFile(Document(CatalogGuarded)),
      ReadableFile(Document(CatalogInvalid)),
      ReadableFile(Document(<<>>)),
      MissingFile, MalformedFile, NoThreatsFile }

----------------------------------------------------------------------------
(* loadThreats *)

\* loadThreats without the try/catch: the exception of readFileSync or
\* JSON.parse reaches the caller
LoadThreatsUncaught(file) ==
    IF file.readable /\ file.parses THEN Returned(file.doc) ELSE Thrown

\* the parsed document; when reading or parsing throws, the catch block
\* returns { threats: [] }
LoadThreats(file) ==
    IF file.readable /\ file.parses THEN Returned(file.doc)
    ELSE Returned(Document(<<>>))

----------------------------------------------------------------------------
(* scanMoveSource *)

\* the value of a finding's line: a number for a function-keyed finding, the
\* string 'Multiple' for a call-flow finding
NumberLine(n) == [is_number |-> TRUE, number |-> n, text |-> ""]
TextLine(s) == [is_number |-> FALSE, number |-> 0, text |-> s]

\* a || b on strings: the empty (or absent) string is falsy
OrElse(a, b) == IF a = "" THEN b ELSE a

\* the comment test on the line as it stands, without trim()
IsCommentLineUntrimmed(ln) == StartsWith(ln, "//") \/ StartsWith(ln, "///")

IsCommentLine(ln) == StartsWith(Trim(ln), "//") \/ StartsWith(Trim(ln), "///")

\* the lines that are scanned: the comment lines are filtered out
ScannedLines(src) == SelectSeq(SplitLines(src), LAMBDA ln : ~IsCommentLine(ln))

\* the context of the line at 0-based index idx
ContextWindow(lines, idx) ==
    Join(Slice(lines, Max(0, idx - 5), Min(Len(lines), idx + 10)), "\n")

\* a check counted missing as soon as one of its two substrings is absent
MissingInContextEither(mc, context) ==
    \/ /\ mc = "signer_check"
       /\ (~Includes(context, "tx_context::sender") \/ ~Includes(context, "signer::"))
    \/ /\ mc = "max_supply_check"
       /\ (~Includes(context, "MAX_SUPPLY") \/ ~Includes(context, "total_supply"))
    \/ /\ mc = "reentrancy_guard"
       /\ (~Includes(context, "reentrancy_guard") \/ ~Includes(context, "ReentrancyGuard"))
    \/ /\ mc = "type_verification"
       /\ (~Includes(context, "assert!")
             \/ ~Includes(context, "dynamic_field::exists_with_type"))

\* a check of a kind the matcher has no test for counted as missing
MissingInContextOrUntested(mc, context) ==
    \/ /\ mc = "signer_check"
       /\ ~Includes(context, "tx_context::sender")
       /\ ~Includes(context, "signer::")
    \/ /\ mc = "max_supply_check"
       /\ ~Includes(context, "MAX_SUPPLY")
       /\ ~Includes(context, "total_supply")
    \/ /\ mc = "reentrancy_guard"
       /\ ~Includes(context, "reentrancy_guard")
       /\ ~Includes(context, "ReentrancyGuard")
    \/ /\ mc = "type_verification"
       /\ ~Includes(context, "assert!")
       /\ ~Includes(context, "dynamic_field::exists_with_type")
    \/ mc \notin {"signer_check", "max_supply_check", "reentrancy_guard",
                  "type_verification"}

\* the four tests of the line/context matcher: check mc is pushed as missing
MissingInContext(mc, context) ==
    \/ /\ mc = "signer_check"
       /\ ~Includes(context, "tx_context::sender")
       /\ ~Includes(context, "signer::")
    \/ /\ mc = "max_supply_check"
       /\ ~Includes(context, "MAX_SUPPLY")
       /\ ~Includes(context, "total_supply")
    \/ /\ mc = "reentrancy_guard"
       /\ ~Includes(context, "reentrancy_guard")
       /\ ~Includes(context, "ReentrancyGuard")
    \/ /\ mc = "type_verification"
       /\ ~Includes(context, "assert!")
       /\ ~Includes(context, "dynamic_field::exists_with_type")

\* the missing list built for a matched line
MissingChecksAt(t, lines, idx) ==
    IF t.pattern.has_missing_checks
    THEN SelectSeq(t.pattern.missing_checks,
                   LAMBDA mc : MissingInContext(mc, ContextWindow(lines, idx)))
    ELSE <<>>

FunctionFinding(t, lines, idx) ==
    [id |-> t.id, severity |-> t.severity, line |-> NumberLine(idx + 1),
     function |-> t.pattern.function_name, snippet |-> Trim(lines[idx + 1]),
     missing_checks |-> MissingChecksAt(t, lines, idx),
     recommendation |-> t.recommendation, fix |-> t.fix,
     exploit_example |-> OrElse(t.exploit_example, "Unknown"),
     cve_reference |-> OrElse(t.cve_reference, "None")]

\* the findings of a function-keyed rule, in line order
RECURSIVE FunctionFindingsFrom(_, _, _)
FunctionFindingsFrom(t, lines, idx) ==
    IF idx >= Len(lines) THEN <<>>
    ELSE (IF /\ Includes(lines[idx + 1], t.pattern.function_name)
             /\ Len(MissingChecksAt(t, lines, idx)) > 0
          THEN <<FunctionFinding(t, lines, idx)>> ELSE <<>>)
         \o FunctionFindingsFrom(t, lines, idx + 1)

\* a rule reports its first matching line only
FunctionFindingsOnce(t, lines) ==
    IF t.has_pattern /\ t.pattern.function_name # ""
    THEN (IF FunctionFindingsFrom(t, lines, 0) = <<>> THEN <<>>
          ELSE <<Head(FunctionFindingsFrom(t, lines, 0))>>)
    ELSE <<>>

\* the line matcher entered for every rule that has a pattern, keyed or not
FunctionFindingsUnkeyed(t, lines) ==
    IF t.has_pattern THEN FunctionFindingsFrom(t, lines, 0) ELSE <<>>

FunctionFindings(t, lines) ==
    IF t.has_pattern /\ t.pattern.function_name # ""
    THEN FunctionFindingsFrom(t, lines, 0) ELSE <<>>

\* the number of call tokens found in the full source
FoundCalls(callPattern, src) ==
    Len(SelectSeq(callPattern, LAMBDA call : Includes(src, call)))

\* foundCalls >= callPattern.length * 0.7, in tenths; the product in
\* double-precision arithmetic decides as the exact one does for every
\* length up to 2000
\* > in place of >= in the threshold test
ThresholdExceeded(foundCalls, length) == foundCalls * 10 > length * 7

ThresholdReached(foundCalls, length) == foundCalls * 10 >= length * 7

\* the missing list holding the searched form of a check, its name less the
\* first underscore, in place of the declared name
MissingChecksInSourceStripped(t, src) ==
    IF t.pattern.has_missing_checks
    THEN LET missing == SelectSeq(t.pattern.missing_checks,
                            LAMBDA check : /\ ~Includes(src, Replace(check, "_", ""))
                                           /\ ~Includes(src, check))
         IN [i \in 1..Len(missing) |-> Replace(missing[i], "_", "")]
    ELSE <<>>

\* the missing list built for an activated call pattern
MissingChecksInSource(t, src) ==
    IF t.pattern.has_missing_checks
    THEN SelectSeq(t.pattern.missing_checks,
                   LAMBDA check : /\ ~Includes(src, Replace(check, "_", ""))
                                  /\ ~Includes(src, check))
    ELSE <<>>

CallFinding(t, src) ==
    [id |-> t.id, severity |-> t.severity, line |-> TextLine("Multiple"),
     function |-> "Call Pattern", snippet |-> Join(t.pattern.function_calls, " + "),
     missing_checks |-> MissingChecksInSource(t, src),
     recommendation |-> t.recommendation, fix |-> t.fix,
     exploit_example |-> OrElse(t.exploit_example, "Unknown"),
     cve_reference |-> OrElse(t.cve_reference, "None")]

\* the finding pushed whatever the length of the missing list
CallFindingsUnguarded(t, src) ==
    IF /\ t.has_pattern /\ t.pattern.has_function_calls
       /\ ThresholdReached(FoundCalls(t.pattern.function_calls, src),
                           Len(t.pattern.function_calls))
    THEN <<CallFinding(t, src)>> ELSE <<>>

CallFindings(t, src) ==
    IF /\ t.has_pattern /\ t.pattern.has_function_calls
       /\ ThresholdReached(FoundCalls(t.pattern.function_calls, src),
                           Len(t.pattern.function_calls))
       /\ Len(MissingChecksInSource(t, src)) > 0
    THEN <<CallFinding(t, src)>> ELSE <<>>

\* threats.forEach: the findings of the rules from position k on
RECURSIVE FindingsFrom(_, _, _, _)
FindingsFrom(threats, k, lines, src) ==
    IF k > Len(threats) THEN <<>>
    ELSE FunctionFindings(threats[k], lines) \o CallFindings(threats[k], src)
         \o FindingsFrom(threats, k + 1, lines, src)

\* scanMoveSource(source) with the catalog file as it is at the call; a
\* document without threats makes threats.forEach throw
ScanMoveSource(src, file) ==
    LET loaded == LoadThreats(file) IN
    IF loaded.raised \/ ~loaded.value.has_threats THEN Thrown
    ELSE Returned(FindingsFrom(loaded.value.threats, 1, ScannedLines(src), src))

----------------------------------------------------------------------------
(* performComprehensiveSecurityScan *)

\* findings.filter(f => f.severity === sev).length
CountSeverity(findings, sev) ==
    Len(SelectSeq(findings, LAMBDA f : f.severity = sev))

\* the score without Math.max(0, ...)
SecurityScoreUnclamped(criticalIssues, highIssues, mediumIssues) ==
    100 - (criticalIssues * 40) - (highIssues * 20) - (mediumIssues * 10)

SecurityScore(criticalIssues, highIssues, mediumIssues) ==
    Max(0, 100 - (criticalIssues * 40) - (highIssues * 20) - (mediumIssues * 10))

\* highIssues < 1 in place of highIssues <= 1
DeploymentReadyNoHigh(criticalIssues, highIssues) ==
    criticalIssues = 0 /\ highIssues < 1

\* the comparison of the high count turned round
DeploymentReadyFlipped(criticalIssues, highIssues) ==
    criticalIssues = 0 /\ highIssues >= 1

DeploymentReady(criticalIssues, highIssues) ==
    criticalIssues = 0 /\ highIssues <= 1

\* >= in place of > in the two thresholds
RiskLevelInclusive(criticalIssues, highIssues, mediumIssues) ==
    IF criticalIssues > 0 THEN "CRITICAL"
    ELSE IF highIssues >= 2 THEN "HIGH"
    ELSE IF mediumIssues >= 3 THEN "MEDIUM"
    ELSE "LOW"

RiskLevel(criticalIssues, highIssues, mediumIssues) ==
    IF criticalIssues > 0 THEN "CRITICAL"
    ELSE IF highIssues > 2 THEN "HIGH"
    ELSE IF mediumIssues > 3 THEN "MEDIUM"
    ELSE "LOW"

Report(findings) ==
    LET criticalIssues == CountSeverity(findings, "critical")
        highIssues == CountSeverity(findings, "high")
        mediumIssues == CountSeverity(findings, "medium")
    IN [criticalIssues |-> criticalIssues,
        highIssues |-> highIssues,
        mediumIssues |-> mediumIssues,
        securityScore |-> SecurityScore(criticalIssues, highIssues, mediumIssues),
        findings |-> findings,
        deployment_ready |-> DeploymentReady(criticalIssues, highIssues),
        risk_level |-> RiskLevel(criticalIssues, highIssues, mediumIssues)]

PerformComprehensiveSecurityScan(code, file) ==
    LET scanned == ScanMoveSource(code, file) IN
    IF scanned.raised THEN Thrown ELSE Returned(Report(scanned.value))

----------------------------------------------------------------------------
(* analyzeEconomicSecurity and analyzeMEVRisks *)

FlashLoanRisk ==
    [type |-> "flash_loan_risk",
     description |-> "Potential flash loan manipulation vulnerability",
     severity |-> "high"]

OracleRisk ==
    [type |-> "oracle_manipulation",
     description |-> "Price oracle dependency detected - ensure TWAP protection",
     severity |-> "medium"]

\* the oracle branch sets MEDIUM without looking at the level reached
AnalyzeEconomicSecurityOverwriting(src) ==
    LET flash == Includes(src, "flash_") \/ Includes(src, "borrow")
        oracle == Includes(src, "price") \/ Includes(src, "oracle")
    IN [risks |-> (IF flash THEN <<FlashLoanRisk>> ELSE <<>>)
                  \o (IF oracle THEN <<OracleRisk>> ELSE <<>>),
        risk_level |-> IF oracle THEN "MEDIUM" ELSE IF flash THEN "HIGH" ELSE "LOW"]

AnalyzeEconomicSecurity(src) ==
    LET flash == Includes(src, "flash_") \/ Includes(src, "borrow")
        oracle == Includes(src, "price") \/ Includes(src, "oracle")
        riskLevel1 == IF flash THEN "HIGH" ELSE "LOW"
        riskLevel2 == IF oracle /\ riskLevel1 = "LOW" THEN "MEDIUM" ELSE riskLevel1
    IN [risks |-> (IF flash THEN <<FlashLoanRisk>> ELSE <<>>)
                  \o (IF oracle THEN <<OracleRisk>> ELSE <<>>),
        risk_level |-> riskLevel2]

ArbitrageRisk ==
    [type |-> "arbitrage_opportunity",
     description |-> "DEX interactions may create arbitrage opportunities",
     mitigation |-> "Implement slippage protection and MEV-resistant ordering"]

FrontrunningRisk ==
    [type |-> "frontrunning_risk",
     description |-> "Auction mechanism vulnerable to frontrunning",
     mitigation |-> "Use commit-reveal schemes or time-locks"]

MevRiskLevel(mevScore) ==
    IF mevScore > 50 THEN "HIGH" ELSE IF mevScore > 20 THEN "MEDIUM" ELSE "LOW"

\* the auction branch adds 30, as the swap branch does
AnalyzeMEVRisksSameWeight(src) ==
    LET dex == Includes(src, "swap") \/ Includes(src, "exchange")
        auction == Includes(src, "auction") \/ Includes(src, "bid")
        mevScore == (IF dex THEN 30 ELSE 0) + (IF auction THEN 30 ELSE 0)
    IN [risks |-> (IF dex THEN <<ArbitrageRisk>> ELSE <<>>)
                  \o (IF auction THEN <<FrontrunningRisk>> ELSE <<>>),
        mev_score |-> mevScore,
        risk_level |-> MevRiskLevel(mevScore)]

AnalyzeMEVRisks(src) ==
    LET dex == Includes(src, "swap") \/ Includes(src, "exchange")
        auction == Includes(src, "auction") \/ Includes(src, "bid")
        mevScore == (IF dex THEN 30 ELSE 0) + (IF auction THEN 40 ELSE 0)
    IN [risks |-> (IF dex THEN <<ArbitrageRisk>> ELSE <<>>)
                  \o (IF auction THEN <<FrontrunningRisk>> ELSE <<>>),
        mev_score |-> mevScore,
        risk_level |-> MevRiskLevel(mevScore)]

----------------------------------------------------------------------------
(* The source texts the calls are made with *)

\* the texts of at most MaxLines lines drawn from pool, joined by line feeds;
\* no lines at all is the empty string
RECURSIVE LineSeqs(_, _)
LineSeqs(pool, n) ==
    IF n = 0 THEN { <<>> }
    ELSE LET shorter == LineSeqs(pool, n - 1) IN
         shorter \cup { Append(ls, ln) : ls \in { x \in shorter : Len(x) = n - 1 },
                                         ln \in pool }

Texts(pool) == { Join(ls, "\n") : ls \in LineSeqs(pool, MaxLines) }

ContractLines ==
    { "fun mint(a)", "mint(total_supply)", "  // mint", "/// signer::",
      "withdraw(signer::of(a))", "flash_swap(get_price())", "repay(a)",
      "oracleupdateguard(a)" }

EconomicLines ==
    { "flash_loan(a)", "borrow(a)", "get_price()", "oracle::read()",
      "flash loan", "a + 1" }

MevLines ==
    { "swap(a, b)", "exchange::rate()", "auction::open()", "forbidden(a)",
      "a + 1" }

ContractSources == Texts(ContractLines)
EconomicSources == Texts(EconomicLines)
MevSources == Texts(MevLines)

\* a text of n lines of which line m names the function mint and line e
\* holds a signer expression, the other lines naming neither
WindowText(n, m, e) ==
    Join([i \in 1..n |-> IF i = m THEN "fun mint(a)"
                         ELSE IF i = e THEN "signer::of(a)"
                         ELSE "x"], "\n")

WindowSources ==
    { WindowText(MaxWindowLines, m, e) : m \in 1..MaxWindowLines, e \in 0..MaxWindowLines }

----------------------------------------------------------------------------
(* The express server: /api/generate *)

\* the keys of ALLOWED_PROMPTS, in the order of Object.keys
AllowedPrompts ==
    << "Build me an NFT collection with royalties",
       "Create a fungible token with mint/burn",
       "Make a simple voting contract" >>

\* properties every plain object inherits from Object.prototype, with the
\* text a template literal makes of their values
InheritedProperties ==
    [constructor |-> "function Object() { [native code] }",
     toString |-> "function toString() { [native code] }",
     valueOf |-> "function valueOf() { [native code] }",
     hasOwnProperty |-> "function hasOwnProperty() { [native code] }",
     __proto__ |-> "[object Object]"]

\* ALLOWED_PROMPTS[key]: the slug of an own key, the inherited value of a
\* property of Object.prototype (truthy), undefined otherwise
AllowedPromptsLookup(key) ==
    IF key = AllowedPrompts[1] THEN [truthy |-> TRUE, text |-> "nft_collection_royalties"]
    ELSE IF key = AllowedPrompts[2] THEN [truthy |-> TRUE, text |-> "fungible_token_mint_burn"]
    ELSE IF key = AllowedPrompts[3] THEN [truthy |-> TRUE, text |-> "simple_voting_contract"]
    ELSE IF key \in DOMAIN InheritedProperties
         THEN [truthy |-> TRUE, text |-> InheritedProperties[key]]
    ELSE [truthy |-> FALSE, text |-> "undefined"]

\* the prompt member of a request body: absent, a string or a number
AbsentPrompt == [kind |-> "absent", text |-> ""]
StringPrompt(s) == [kind |-> "string", text |-> s]
NumberPrompt(s) == [kind |-> "number", text |-> s]

\* (req.body.prompt || '').trim(): a truthy value that is not a string has
\* no trim method
PromptText(prompt) ==
    IF prompt.kind = "absent" \/ prompt.text = "" \/ prompt = NumberPrompt("0")
    THEN Returned("")
    ELSE IF prompt.kind = "string" THEN Returned(Trim(prompt.text))
    ELSE Thrown

\* the code fence of three backticks; in the texts of the model the tilde
\* stands for the backtick, which a string of this language cannot hold
Fence == "~~~"

\* the position after a fence, an optional "move" and a line feed when that
\* stands at position i of text, 0 otherwise (the flag i of the regular
\* expression makes "move" match in any case)
FenceOpenEnd(text, i) ==
    IF SubSeq(text, i, i + 2) # Fence THEN 0
    ELSE IF /\ Len(text) >= i + 7
            /\ SubSeq(text, i + 3, i + 3) \in {"m", "M"}
            /\ SubSeq(text, i + 4, i + 4) \in {"o", "O"}
            /\ SubSeq(text, i + 5, i + 5) \in {"v", "V"}
            /\ SubSeq(text, i + 6, i + 6) \in {"e", "E"}
            /\ SubSeq(text, i + 7, i + 7) = "\n"
         THEN i + 8
    ELSE IF Len(text) >= i + 3 /\ SubSeq(text, i + 3, i + 3) = "\n" THEN i + 4
    ELSE 0

\* text.match(/FENCE(?:move)?\n([\s\S]*?)FENCE/i): the capture of the
\* leftmost match, from position i on
RECURSIVE FenceMatch(_, _)
FenceMatch(text, i) ==
    IF i + 2 > Len(text) THEN [matched |-> FALSE, capture |-> ""]
    ELSE LET from == FenceOpenEnd(text, i)
             close == IF from = 0 THEN 0 ELSE IndexOf(text, Fence, from)
         IN IF close # 0
            THEN [matched |-> TRUE, capture |-> SubSeq(text, from, close - 1)]
            ELSE FenceMatch(text, i + 1)

ExtractCode(text) ==
    LET match == FenceMatch(text, 1) IN
    IF match.matched /\ match.capture # "" THEN Trim(match.capture) ELSE Trim(text)

\* the answer of the language model service to axios.post: the request
\* fails, or response.data.choices[0].message.content is raw (the empty
\* string when there is no content)
ModelError == [failed |-> TRUE, raw |-> ""]
ModelContent(raw) == [failed |-> FALSE, raw |-> raw]

\* a generated code with a critical issue blocks only from two issues on
BlocksGeneratedFromTwo(securityAnalysis) == securityAnalysis.criticalIssues > 1

\* the test of line 284
BlocksGenerated(securityAnalysis) == securityAnalysis.criticalIssues > 0

\* decimal digits of a natural number
RECURSIVE DigitString(_)
DigitString(n) ==
    IF n < 10 THEN SubSeq("0123456789", n + 1, n + 1)
    ELSE DigitString(n \div 10) \o SubSeq("0123456789", (n % 10) + 1, (n % 10) + 1)

SourcesDir == "sui-contracts/sources/"
DefaultMovePath == SourcesDir \o "CoreToken.move"

\* what a handler did: axios.post with the prompt, a comprehensive scan of
\* code that returned a report, writeFileSync of code to file
ModelCallEffect(promptText) ==
    [kind |-> "model", text |-> promptText, criticalIssues |-> 0, file |-> ""]
ScanEffect(code, criticalIssues) ==
    [kind |-> "scan", text |-> code, criticalIssues |-> criticalIssues, file |-> ""]
WriteEffect(file, code) ==
    [kind |-> "write", text |-> code, criticalIssues |-> 0, file |-> file]

NoReport == [present |-> FALSE, value |-> Report(<<>>)]
SomeReport(report) == [present |-> TRUE, value |-> report]

\* the JSON body of a response of /api/generate
GenerateResponse(status, ok, allowed, file, code, fallback, report) ==
    [endpoint |-> "generate", status |-> status, ok |-> ok,
     allowed_prompts |-> allowed, file |-> file, generated_code |-> code,
     fallback_used |-> fallback, security_report |-> report]

\* no response is sent
NoResponse == [endpoint |-> "none", status |-> 0, ok |-> FALSE]

InvalidPromptResponse ==
    GenerateResponse(400, FALSE, AllowedPrompts, "", "", FALSE, NoReport)

\* the fallback answer; readFileSync of the default file may throw
FallbackResponse(file) ==
    IF file.readable
    THEN Returned(GenerateResponse(200, TRUE, <<>>, DefaultMovePath, file.content, TRUE, NoReport))
    ELSE Thrown

\* what the handler has done when it returns or suspends
Failed(log) == [pc |-> "failed", response |-> NoResponse, effects |-> log]
Responded(body, log) == [pc |-> "responded", response |-> body, effects |-> log]
Suspended(log) == [pc |-> "awaitingModel", response |-> NoResponse, effects |-> log]

\* the catch block of /api/generate, and the branch without an API key: the
\* fallback answer, or the exception of readFileSync leaving the handler
Fallback(file, log) ==
    IF FallbackResponse(file).raised THEN Failed(log)
    ELSE Responded(FallbackResponse(file).value, log)

\* /api/generate up to the await of axios.post
GenerateUntilAwait(prompt, key, file) ==
    IF PromptText(prompt).raised THEN Failed(<<>>)
    ELSE IF ~AllowedPromptsLookup(PromptText(prompt).value).truthy
         THEN Responded(InvalidPromptResponse, <<>>)
    ELSE IF ~key THEN Fallback(file, <<>>)
    ELSE Suspended(<<ModelCallEffect(PromptText(prompt).value)>>)

\* /api/generate from the await on: reply is the outcome of axios.post, now
\* the value of Date.now(), writable whether mkdirSync and writeFileSync
\* succeed
GenerateAfterAwait(promptText, reply, threats, file, now, writable, log) ==
    IF reply.failed THEN Fallback(file, log)
    ELSE LET code == ExtractCode(reply.raw)
             securityAnalysis == PerformComprehensiveSecurityScan(code, threats)
         IN IF securityAnalysis.raised THEN Fallback(file, log)
            ELSE LET scanned ==
                         Append(log, ScanEffect(code, securityAnalysis.value.criticalIssues))
                     filePath == SourcesDir \o AllowedPromptsLookup(promptText).text
                                     \o "-" \o DigitString(now) \o ".move"
                 IN IF BlocksGenerated(securityAnalysis.value)
                    THEN Responded(GenerateResponse(400, FALSE, <<>>, "", "", FALSE,
                                                    SomeReport(securityAnalysis.value)),
                                   scanned)
                    ELSE IF ~writable THEN Fallback(file, scanned)
                    ELSE Responded(GenerateResponse(200, TRUE, <<>>, filePath, code, FALSE,
                                                    NoReport),
                                   Append(scanned, WriteEffect(filePath, code)))

----------------------------------------------------------------------------
(* The express server: /api/security-audit *)

AbsentSource == [kind |-> "absent", text |-> ""]
StringSource(s) == [kind |-> "string", text |-> s]

\* the recommendation that looks at the scan alone
SafeToDeployScanOnly(deployment_ready, risk_level) == deployment_ready

SafeToDeploy(deployment_ready, risk_level) == deployment_ready /\ risk_level # "HIGH"

\* new Date().toISOString() at millisecond now of the epoch
IsoString(now) == "1970-01-01T00:00:00.00" \o DigitString(now) \o "Z"

\* the body of a response of /api/security-audit that is not the payload
AuditError(status, json) ==
    [endpoint |-> "audit", status |-> status, ok |-> FALSE, json |-> json]

AuditPayload(filePath, now, comprehensiveAnalysis, economicRisks, mevAnalysis) ==
    [endpoint |-> "audit", status |-> 200, ok |-> TRUE, json |-> TRUE,
     file |-> filePath,
     timestamp |-> IsoString(now),
     security_analysis |-> comprehensiveAnalysis,
     economic_risks |-> economicRisks,
     mev_analysis |-> mevAnalysis,
     deployment_recommendation |->
         [safe_to_deploy |-> SafeToDeploy(comprehensiveAnalysis.deployment_ready,
                                          economicRisks.risk_level),
          required_fixes |-> SelectSeq(comprehensiveAnalysis.findings,
                                       LAMBDA f : f.severity = "critical"),
          optimization_suggestions |-> SelectSeq(comprehensiveAnalysis.findings,
                                                 LAMBDA f : f.severity = "medium")]]

\* the audit of text src read from filePath; an exception of the scan
\* reaches the error handler of express, which answers 500
AuditOf(src, filePath, threats, now) ==
    IF PerformComprehensiveSecurityScan(src, threats).raised THEN AuditError(500, FALSE)
    ELSE AuditPayload(filePath, now, PerformComprehensiveSecurityScan(src, threats).value,
                      AnalyzeEconomicSecurity(src), AnalyzeMEVRisks(src))

\* the handler of /api/security-audit
SecurityAudit(move_source, file, threats, now) ==
    IF move_source.kind = "string" /\ move_source.text # ""
    THEN AuditOf(move_source.text, "raw_input", threats, now)
    ELSE IF ~file.readable THEN AuditError(500, TRUE)
    ELSE AuditOf(file.content, DefaultMovePath, threats, now)

----------------------------------------------------------------------------
(* The requests the server is sent and its environment *)

Prompts ==
    { AbsentPrompt, NumberPrompt("7"), StringPrompt(""), StringPrompt("  "),
      StringPrompt("Build me an NFT collection with royalties"),
      StringPrompt("Create a fungible token with mint/burn"),
      StringPrompt("Make a simple voting contract"),
      StringPrompt(" Make a simple voting contract\n"),
      StringPrompt("make a simple voting contract"),
      StringPrompt("Invalid prompt"),
      StringPrompt("constructor") }

ModelAnswers ==
    { ModelError, ModelContent(""),
      ModelContent(Fence \o "move\nfun mint(a)\n" \o Fence),
      ModelContent("Here it is:\n" \o Fence \o "\nwithdraw(a)\n" \o Fence \o "\nDone"),
      ModelContent(Fence \o "\n" \o Fence),
      ModelContent("  repay(a) " \o Fence) }

DefaultMoveFiles ==
    { [readable |-> TRUE, content |-> "module Core::CoreToken {\nfun mint(a)\n}"],
      [readable |-> FALSE, content |-> ""] }

AuditLines ==
    { "fun mint(a)", "withdraw(signer::of(a))", "flash_swap(get_price())", "repay(a)" }

AuditSources ==
    {AbsentSource, StringSource("")} \cup { StringSource(src) : src \in Texts(AuditLines) }

NoRequest == [endpoint |-> "none", prompt |-> AbsentPrompt, move_source |-> AbsentSource]

ServerIdle ==
    /\ apiPc = "idle"
    /\ request = NoRequest
    /\ response = NoResponse
    /\ effects = <<>>

----------------------------------------------------------------------------
(* The editor extension: CoreAnalyzer *)

RunIds == 1..MaxRuns

CoreIssue(line, severity, message, suggestion) ==
    [is_null |-> FALSE, line |-> line, severity |-> severity, message |-> message,
     suggestion |-> suggestion]

\* the JSON value null as an item of the array issues
NullItem ==
    [is_null |-> TRUE, line |-> 0, severity |-> "", message |-> "", suggestion |-> ""]

\* getMockIssues
MockIssues ==
    << CoreIssue(1, "error", "TEST", "check here"),
       CoreIssue(13, "error", "Missing signer check in Sui transaction",
                 "Add signer parameter for access control in Sui transactions"),
       CoreIssue(24, "warning", "Unsafe arithmetic",
                 "Use checked_add / checked_sub for overflow protection"),
       CoreIssue(28, "warning", "Unrestricted public function",
                 "Consider using public(friend) for better access control"),
       CoreIssue(35, "error", "Unauthorized object transfer",
                 "Ensure transfers are authorized with signer parameter"),
       CoreIssue(42, "warning", "Direct object deletion",
                 "Use sui::object::delete for proper object deletion") >>

\* the body of a response of the backend as JSON.parse sees it: not JSON,
\* the value null, a value without a member issues (or with a falsy one),
\* an object with an array issues
InvalidBody == [kind |-> "invalid", issues |-> <<>>]
NullBody == [kind |-> "null", issues |-> <<>>]
BodyWithoutIssues == [kind |-> "no_issues", issues |-> <<>>]
BodyWithIssues(issues) == [kind |-> "issues", issues |-> issues]

\* how the promise of callAnalyzerAPI settles
Rejected(reason) == [rejected |-> TRUE, reason |-> reason, issues |-> <<>>]
Resolved(issues) == [rejected |-> FALSE, reason |-> "", issues |-> issues]
Pending == [rejected |-> FALSE, reason |-> "pending", issues |-> <<>>]

\* the 'end' listener of the response: JSON.parse(data), then
\* response.issues || []; an exception of either rejects
ResponseEnded(body) ==
    IF body.kind \in {"invalid", "null"} THEN Rejected("Failed to parse API response")
    ELSE IF body.kind = "issues" THEN Resolved(body.issues)
    ELSE Resolved(<<>>)

\* the 'error' listener of the request
RequestFailed == Rejected("API request failed")

\* new URL(this.apiUrl) throws in the executor of the promise
UrlRejected == Rejected("Invalid URL")

\* analyzeContract without its catch block: the rejection reaches the caller
AnalyzeContractUncaught(api) ==
    IF api.rejected
    THEN [settled |-> "rejected", issues |-> <<>>, message |-> "none"]
    ELSE [settled |-> "resolved", issues |-> api.issues, message |-> "information"]

\* analyzeContract after the await of callAnalyzerAPI: the issues and the
\* message shown to the user
AnalyzeContract(api) ==
    IF api.rejected
    THEN [settled |-> "resolved", issues |-> MockIssues, message |-> "warning"]
    ELSE [settled |-> "resolved", issues |-> api.issues, message |-> "information"]

NotSettled == [settled |-> "pending", issues |-> <<>>, message |-> "none"]

\* the network event that ended the request of a run
NoEvent == [kind |-> "none", body |-> BodyWithoutIssues]
ErrorEvent == [kind |-> "error", body |-> BodyWithoutIssues]
EndEvent(body) == [kind |-> "end", body |-> body]

IdleRun ==
    [pc |-> "idle", code |-> "", event |-> NoEvent, api |-> Pending,
     outcome |-> NotSettled]

\* the texts of the two documents open in the editor, and their URIs
PluginCodes == { "", "module m { fun mint(a) }" }

UriOf(code) == IF code = "" THEN "file:///empty.move" ELSE "file:///token.move"

Uris == { UriOf(code) : code \in PluginCodes }

\* activate and the constructor of the panel: an empty diagnostic collection
\* and _issues = []
PluginIdle ==
    /\ runs = [r \in RunIds |-> IdleRun]
    /\ diagnostics = [uri \in Uris |-> <<>>]
    /\ panelIssues = <<>>

BackendIssues ==
    { <<>>,
      << CoreIssue(3, "warning", "Unsafe arithmetic", "Use checked_add") >>,
      << CoreIssue(1, "error", "Missing signer check", "Add signer"),
         CoreIssue(7, "info", "Consider events", "Emit an event") >>,
      << NullItem >> }

ResponseBodies ==
    { InvalidBody, NullBody, BodyWithoutIssues }
        \cup { BodyWithIssues(issues) : issues \in BackendIssues }

----------------------------------------------------------------------------
(* The state machine: a caller of the engine and the catalog file *)

NoCall == Returned(<<>>)

Init ==
    /\ threatsFile \in ThreatFiles
    /\ op = "idle"
    /\ source = ""
    /\ ret = NoCall
    /\ prev = NoCall
    /\ openaiKey = FALSE
    /\ defaultFile \in { file \in DefaultMoveFiles : file.readable }
    /\ ServerIdle
    /\ PluginIdle

\* the catalog file is replaced on disk
WriteThreatsFile ==
    /\ \E file \in ThreatFiles : file # threatsFile /\ threatsFile' = file
    /\ UNCHANGED <<op, source, ret, prev>>
    /\ UNCHANGED <<serverVars, pluginVars>>

CallScanMoveSource ==
    /\ op = "idle"
    /\ \E src \in ContractSources :
          /\ source' = src
          /\ ret' = ScanMoveSource(src, threatsFile)
    /\ op' = "scanMoveSource"
    /\ UNCHANGED <<threatsFile, prev>>
    /\ UNCHANGED <<serverVars, pluginVars>>

\* scanMoveSource is called a second time with the same source text
CallScanMoveSourceAgain ==
    /\ op = "scanMoveSource"
    /\ prev' = ret
    /\ ret' = ScanMoveSource(source, threatsFile)
    /\ op' = "scanMoveSourceAgain"
    /\ UNCHANGED <<threatsFile, source>>
    /\ UNCHANGED <<serverVars, pluginVars>>

CallPerformComprehensiveSecurityScan ==
    /\ op = "idle"
    /\ \E src \in ContractSources :
          /\ source' = src
          /\ ret' = PerformComprehensiveSecurityScan(src, threatsFile)
    /\ op' = "performComprehensiveSecurityScan"
    /\ UNCHANGED <<threatsFile, prev>>
    /\ UNCHANGED <<serverVars, pluginVars>>

CallAnalyzeEconomicSecurity ==
    /\ op = "idle"
    /\ \E src \in EconomicSources :
          /\ source' = src
          /\ ret' = Returned(AnalyzeEconomicSecurity(src))
    /\ op' = "analyzeEconomicSecurity"
    /\ UNCHANGED <<threatsFile, prev>>
    /\ UNCHANGED <<serverVars, pluginVars>>

CallAnalyzeMEVRisks ==
    /\ op = "idle"
    /\ \E src \in MevSources :
          /\ source' = src
          /\ ret' = Returned(AnalyzeMEVRisks(src))
    /\ op' = "analyzeMEVRisks"
    /\ UNCHANGED <<threatsFile, prev>>
    /\ UNCHANGED <<serverVars, pluginVars>>

\* the caller has used the result and makes no call
Done ==
    /\ op # "idle"
    /\ op' = "idle"
    /\ source' = ""
    /\ ret' = NoCall
    /\ prev' = NoCall
    /\ UNCHANGED threatsFile
    /\ UNCHANGED <<serverVars, pluginVars>>

Next ==
    \/ WriteThreatsFile
    \/ CallScanMoveSource
    \/ CallScanMoveSourceAgain
    \/ CallPerformComprehensiveSecurityScan
    \/ CallAnalyzeEconomicSecurity
    \/ CallAnalyzeMEVRisks
    \/ Done

Spec == Init /\ [][Next]_vars

\* scanMoveSource is called with a text longer than a context window
CallScanMoveSourceLong ==
    /\ op = "idle"
    /\ \E src \in WindowSources :
          /\ source' = src
          /\ ret' = ScanMoveSource(src, threatsFile)
    /\ op' = "scanMoveSource"
    /\ UNCHANGED <<threatsFile, prev>>
    /\ UNCHANGED <<serverVars, pluginVars>>

NextWindow ==
    \/ WriteThreatsFile
    \/ CallScanMoveSourceLong
    \/ Done

SpecWindow == Init /\ [][NextWindow]_vars

\* the catalog file as it is when the process starts
StartFile == ReadableFile(Document(CatalogMain))

\* a process started with the catalog file StartFile
InitReload ==
    /\ threatsFile = StartFile
    /\ op = "idle"
    /\ source = ""
    /\ ret = NoCall
    /\ prev = NoCall
    /\ openaiKey = FALSE
    /\ defaultFile \in { file \in DefaultMoveFiles : file.readable }
    /\ ServerIdle
    /\ PluginIdle

\* scans of one process while the catalog file is rewritten
NextReload ==
    \/ WriteThreatsFile
    \/ CallScanMoveSource
    \/ CallScanMoveSourceAgain
    \/ Done

SpecReload == InitReload /\ [][NextReload]_vars

----------------------------------------------------------------------------
(* The state machine of the server: requests, the language model service and
   the catalog file *)

InitApi ==
    /\ threatsFile \in ThreatFiles
    /\ op = "idle"
    /\ source = ""
    /\ ret = NoCall
    /\ prev = NoCall
    /\ openaiKey \in BOOLEAN
    /\ defaultFile \in DefaultMoveFiles
    /\ ServerIdle
    /\ PluginIdle

\* POST /api/generate arrives and its handler runs up to the await
PostGenerate ==
    /\ apiPc = "idle"
    /\ \E prompt \in Prompts :
          /\ request' = [endpoint |-> "generate", prompt |-> prompt,
                         move_source |-> AbsentSource]
          /\ \A done \in {GenerateUntilAwait(prompt, openaiKey, defaultFile)} :
                /\ apiPc' = done.pc
                /\ response' = done.response
                /\ effects' = done.effects
    /\ UNCHANGED <<threatsFile, op, source, ret, prev, openaiKey, defaultFile>>
    /\ UNCHANGED pluginVars

\* axios.post settles and the handler runs to its end
ModelReplies ==
    /\ apiPc = "awaitingModel"
    /\ \E reply \in ModelAnswers, now \in 1..MaxClock, writable \in BOOLEAN :
          \A done \in {GenerateAfterAwait(PromptText(request.prompt).value, reply,
                                          threatsFile, defaultFile, now, writable,
                                          effects)} :
                /\ apiPc' = done.pc
                /\ response' = done.response
                /\ effects' = done.effects
    /\ UNCHANGED <<threatsFile, op, source, ret, prev, openaiKey, defaultFile, request>>
    /\ UNCHANGED pluginVars

\* POST /api/security-audit arrives and is answered
PostSecurityAudit ==
    /\ apiPc = "idle"
    /\ \E move_source \in AuditSources, now \in 1..MaxClock :
          /\ request' = [endpoint |-> "audit", prompt |-> AbsentPrompt,
                         move_source |-> move_source]
          /\ response' = SecurityAudit(move_source, defaultFile, threatsFile, now)
    /\ apiPc' = "responded"
    /\ effects' = <<>>
    /\ UNCHANGED <<threatsFile, op, source, ret, prev, openaiKey, defaultFile>>
    /\ UNCHANGED pluginVars

\* the request is over: answered, or left without an answer
RequestOver ==
    /\ apiPc \in {"responded", "failed"}
    /\ apiPc' = "idle"
    /\ request' = NoRequest
    /\ response' = NoResponse
    /\ effects' = <<>>
    /\ UNCHANGED <<threatsFile, op, source, ret, prev, openaiKey, defaultFile>>
    /\ UNCHANGED pluginVars

NextApi ==
    \/ WriteThreatsFile
    \/ PostGenerate
    \/ ModelReplies
    \/ PostSecurityAudit
    \/ RequestOver

SpecApi == InitApi /\ [][NextApi]_vars

----------------------------------------------------------------------------
(* The state machine of the editor extension: analyses and the backend *)

\* the extension is activated; the backend is another process, with its
\* catalog in place and no request in progress
InitPlugin ==
    /\ threatsFile = ReadableFile(Document(CatalogMain))
    /\ op = "idle"
    /\ source = ""
    /\ ret = NoCall
    /\ prev = NoCall
    /\ openaiKey = FALSE
    /\ defaultFile \in { file \in DefaultMoveFiles : file.readable }
    /\ ServerIdle
    /\ PluginIdle

\* analyzeContract(code) is called: callAnalyzerAPI sends the request, or
\* its promise is rejected at once when the configured URL is not a URL
StartAnalysis(r) ==
    /\ runs[r].pc = "idle"
    /\ \E code \in PluginCodes, urlValid \in BOOLEAN :
          runs' = [runs EXCEPT ![r] =
                      [IdleRun EXCEPT !.code = code,
                                      !.pc = IF urlValid THEN "requesting" ELSE "settled",
                                      !.api = IF urlValid THEN Pending ELSE UrlRejected]]
    /\ UNCHANGED <<threatsFile, op, source, ret, prev, serverVars, displayVars>>

\* the request emits 'error'
RequestError(r) ==
    /\ runs[r].pc = "requesting"
    /\ runs' = [runs EXCEPT ![r].pc = "settled", ![r].event = ErrorEvent,
                            ![r].api = RequestFailed]
    /\ UNCHANGED <<threatsFile, op, source, ret, prev, serverVars, displayVars>>

\* the response emits 'end' with its body received
ResponseEnd(r) ==
    /\ runs[r].pc = "requesting"
    /\ \E body \in ResponseBodies :
          runs' = [runs EXCEPT ![r].pc = "settled", ![r].event = EndEvent(body),
                              ![r].api = ResponseEnded(body)]
    /\ UNCHANGED <<threatsFile, op, source, ret, prev, serverVars, displayVars>>

\* analyzeContract resumes after its await and settles
AnalyzeContractResumes(r) ==
    /\ runs[r].pc = "settled"
    /\ runs' = [runs EXCEPT ![r].pc = "done",
                            ![r].outcome = AnalyzeContract(runs[r].api)]
    /\ UNCHANGED <<threatsFile, op, source, ret, prev, serverVars, displayVars>>

\* the caller has taken the result of the run
RunOver(r) ==
    /\ runs[r].pc = "done"
    /\ runs' = [runs EXCEPT ![r] = IdleRun]
    /\ UNCHANGED <<threatsFile, op, source, ret, prev, serverVars, displayVars>>

NextPlugin ==
    \E r \in RunIds :
        \/ StartAnalysis(r)
        \/ RequestError(r)
        \/ ResponseEnd(r)
        \/ AnalyzeContractResumes(r)
        \/ RunOver(r)

SpecPlugin == InitPlugin /\ [][NextPlugin]_vars

\* the diagnostic showDiagnostics makes of an issue
Diagnostic(issue) ==
    [line |-> issue.line - 1, end |-> 1000,
     message |-> issue.message \o ". " \o issue.suggestion,
     severity |-> IF issue.severity = "error" THEN "Error" ELSE "Warning",
     code |-> "core-analyzer"]

\* showDiagnostics(uri, issues): the diagnostics set for the document; reading
\* issue.line of a null item throws before diagnosticCollection.set
ShowDiagnostics(issues) ==
    IF \E i \in DOMAIN issues : issues[i].is_null THEN Thrown
    ELSE Returned([i \in DOMAIN issues |-> Diagnostic(issues[i])])

\* runCoreAnalysis resumes after its await of analyzeContract:
\* diagnosticCollection.clear(), showDiagnostics, updateResults; an
\* exception of showDiagnostics leaves the try block at once
RunCoreAnalysisResumes(r) ==
    /\ runs[r].pc = "done"
    /\ \A shown \in {ShowDiagnostics(runs[r].outcome.issues)} :
          IF shown.raised
          THEN /\ diagnostics' = [uri \in Uris |-> <<>>]
               /\ UNCHANGED panelIssues
          ELSE /\ diagnostics' = [uri \in Uris |->
                                    IF uri = UriOf(runs[r].code) THEN shown.value
                                    ELSE <<>>]
               /\ panelIssues' = runs[r].outcome.issues
    /\ runs' = [runs EXCEPT ![r] = IdleRun]
    /\ UNCHANGED <<threatsFile, op, source, ret, prev, serverVars>>

\* the extension: analyses started by editor change, save and the command
NextExtension ==
    \E r \in RunIds :
        \/ StartAnalysis(r)
        \/ RequestError(r)
        \/ ResponseEnd(r)
        \/ AnalyzeContractResumes(r)
        \/ RunCoreAnalysisResumes(r)

SpecExtension == InitPlugin /\ [][NextExtension]_vars

----------------------------------------------------------------------------
(* The backend of the editor extension: regular expressions *)

WordChars ==
    { SubSeq("abcdefghijklmnopqrstuvwxyzABCDEFGHIJKLMNOPQRSTUVWXYZ0123456789_", i, i) :
         i \in 1..63 }

DigitChars == { SubSeq("0123456789", i, i) : i \in 1..10 }

\* the character c belongs to the class: \s, \w, \d, [^)] and .
InClass(cls, c) ==
    CASE cls = "space" -> c \in {" ", "\t", "\r", "\n"}
      [] cls = "word" -> c \in WordChars
      [] cls = "digit" -> c \in DigitChars
      [] cls = "notparen" -> c # ")"
      [] cls = "any" -> c # "\n"
      [] OTHER -> FALSE

\* the parts of a regular expression: a literal text, and a class repeated
\* at least min times (+ and *), greedily
Str(text) == [cls |-> "str", text |-> text, min |-> 1]
Many(cls, min) == [cls |-> cls, text |-> "", min |-> min]

\* the one element of a set of one element
Only(S) == CHOOSE v \in S : TRUE

\* the number of characters of the class that follow one another from pos
RECURSIVE RunFrom(_, _, _)
RunFrom(cls, s, pos) ==
    IF pos > Len(s) THEN 0
    ELSE IF ~InClass(cls, SubSeq(s, pos, pos)) THEN 0
    ELSE 1 + RunFrom(cls, s, pos + 1)

\* the parts from the k-th on match s at pos: the position after the match,
\* 0 when there is none; a repetition takes the longest run first and gives
\* characters back one at a time
RECURSIVE MatchParts(_, _, _, _)
RECURSIVE TryLength(_, _, _, _, _)
MatchParts(parts, k, s, pos) ==
    IF k > Len(parts) THEN pos
    ELSE IF parts[k].cls = "str"
    THEN (IF /\ pos + Len(parts[k].text) - 1 <= Len(s)
             /\ SubSeq(s, pos, pos + Len(parts[k].text) - 1) = parts[k].text
          THEN MatchParts(parts, k + 1, s, pos + Len(parts[k].text))
          ELSE 0)
    ELSE TryLength(parts, k, s, pos, RunFrom(parts[k].cls, s, pos))

TryLength(parts, k, s, pos, n) ==
    IF n < parts[k].min THEN 0
    ELSE Only({ IF e # 0 THEN e ELSE TryLength(parts, k, s, pos, n - 1) :
                   e \in {MatchParts(parts, k + 1, s, pos + n)} })

\* the alternatives of a pattern are tried in their order
RECURSIVE MatchAlternatives(_, _, _, _)
MatchAlternatives(alts, a, s, pos) ==
    IF a > Len(alts) THEN 0
    ELSE Only({ IF e # 0 THEN e ELSE MatchAlternatives(alts, a + 1, s, pos) :
                   e \in {MatchParts(alts[a], 1, s, pos)} })

\* String.prototype.match with a global pattern: the matched texts from
\* left to right, none overlapping (the empty list stands for null)
RECURSIVE GlobalMatches(_, _, _)
GlobalMatches(alts, s, pos) ==
    IF pos > Len(s) THEN <<>>
    ELSE Only({ IF e = 0 THEN GlobalMatches(alts, s, pos + 1)
                ELSE <<SubSeq(s, pos, e - 1)>> \o GlobalMatches(alts, s, e) :
                   e \in {MatchAlternatives(alts, 1, s, pos)} })

----------------------------------------------------------------------------
(* The backend of the editor extension: analyzeSuiMoveContract *)

\* an entry of a pattern table; check(match) is true when the match includes
\* none of the texts of excludes
Practice(alts, excludes, severity, message, suggestion) ==
    [pattern |-> alts, excludes |-> excludes, severity |-> severity,
     message |-> message, suggestion |-> suggestion]

suiVulnerabilityPatterns ==
    << Practice(<< << Str("public"), Many("space", 1), Str("fun"), Many("space", 1),
                      Many("word", 1), Many("space", 0), Str("("), Many("notparen", 0),
                      Str("ctx:"), Many("space", 0), Str("&mut"), Many("space", 1),
                      Str("TxContext"), Many("notparen", 0), Str(")") >> >>,
                <<"signer">>, "error", "Missing signer check in Sui transaction",
                "Add signer parameter for access control in Sui transactions"),
       Practice(<< << Str("public"), Many("space", 1), Str("fun"), Many("space", 1),
                      Many("word", 1), Many("space", 0), Str("("), Many("notparen", 0),
                      Str(")") >> >>,
                <<"signer", "TxContext">>, "warning", "Missing access control",
                "Add signer or TxContext parameter for proper access control"),
       Practice(<< << Str("+"), Many("space", 0), Many("digit", 1) >>,
                   << Str("-"), Many("space", 0), Many("digit", 1) >>,
                   << Str("*"), Many("space", 0), Many("digit", 1) >> >>,
                <<>>, "warning", "Unsafe arithmetic",
                "Use checked_add / checked_sub / checked_mul for overflow protection"),
       Practice(<< << Str("borrow_global_mut") >>, << Str("borrow_global") >> >>,
                <<>>, "warning", "Direct global storage access",
                "Use Sui object model functions for safer storage access"),
       Practice(<< << Str("transfer::public_transfer") >>, << Str("transfer") >> >>,
                <<"signer">>, "error", "Unauthorized object transfer",
                "Ensure transfers are authorized with signer parameter"),
       Practice(<< << Str("delete"), Many("space", 0), Str("("), Many("notparen", 0),
                      Str(")") >> >>,
                <<>>, "warning", "Direct object deletion",
                "Use sui::object::delete for proper object deletion"),
       Practice(<< << Str("public"), Many("space", 1), Str("entry"), Many("space", 1),
                      Str("fun"), Many("space", 1), Many("word", 1) >>,
                   << Str("public"), Many("space", 1),
                      Str("fun"), Many("space", 1), Many("word", 1) >> >>,
                <<"public(friend)">>, "warning", "Unrestricted public function",
                "Consider using public(friend) or internal functions for better access control") >>

suiBestPracticePatterns ==
    << Practice(<< << Str("use"), Many("space", 1), Str("std::"), Many("any", 0),
                      Str(";") >> >>,
                <<>>, "info", "Standard library usage",
                "Ensure standard library functions are used appropriately"),
       Practice(<< << Str("use"), Many("space", 1), Str("sui::"), Many("any", 0),
                      Str(";") >> >>,
                <<>>, "info", "Sui framework usage",
                "Ensure Sui framework functions are used appropriately") >>

\* the matches of the line that pass the check of the entry
CheckedMatches(practice, line) ==
    SelectSeq(GlobalMatches(practice.pattern, line, 1),
              LAMBDA match : \A x \in DOMAIN practice.excludes :
                                ~Includes(match, practice.excludes[x]))

\* the issues pushed for one line by the entries of a table from the p-th on
RECURSIVE IssuesOfTable(_, _, _, _)
IssuesOfTable(table, p, line, index) ==
    IF p > Len(table) THEN <<>>
    ELSE [m \in 1..Len(CheckedMatches(table[p], line)) |->
             CoreIssue(index + 1, table[p].severity, table[p].message,
                       table[p].suggestion)]
         \o IssuesOfTable(table, p + 1, line, index)

\* lines.forEach from the 0-based index on
RECURSIVE IssuesFromLine(_, _)
IssuesFromLine(lines, index) ==
    IF index >= Len(lines) THEN <<>>
    ELSE IssuesOfTable(suiVulnerabilityPatterns, 1, lines[index + 1], index)
         \o IssuesOfTable(suiBestPracticePatterns, 1, lines[index + 1], index)
         \o IssuesFromLine(lines, index + 1)

\* the three issues pushed when the list is empty
SampleIssues ==
    << CoreIssue(15, "error", "Missing signer check in Sui transaction",
                 "Add signer parameter for access control in Sui transactions"),
       CoreIssue(28, "warning", "Unsafe arithmetic",
                 "Use checked_add / checked_sub for overflow protection"),
       CoreIssue(45, "warning", "Unrestricted public function",
                 "Consider using public(friend) for better access control") >>

\* the issues found, nothing added when there are none
AnalyzeSuiMoveContractNoSamples(code) == IssuesFromLine(SplitLines(code), 0)

analyzeSuiMoveContract(code) ==
    IF IssuesFromLine(SplitLines(code), 0) = <<>> THEN SampleIssues
    ELSE IssuesFromLine(SplitLines(code), 0)

\* the member code of the request body: absent, a string, a number
AbsentCode == [kind |-> "absent", text |-> ""]
StringCode(text) == [kind |-> "string", text |-> text]
NumberCode == [kind |-> "number", text |-> "7"]

\* POST /api/analyze of the backend of the extension: 400 when code is
\* falsy, 500 when the analysis throws (split of a value that is no string),
\* the issues otherwise
AnalyzeResponse(code) ==
    IF code.kind = "absent" \/ (code.kind = "string" /\ code.text = "")
    THEN [status |-> 400, error |-> "Missing code parameter", issues |-> <<>>]
    ELSE IF code.kind # "string"
    THEN [status |-> 500, error |-> "Internal server error during analysis",
          issues |-> <<>>]
    ELSE [status |-> 200, error |-> "", issues |-> analyzeSuiMoveContract(code.text)]

SuiLines ==
    { "public fun f(ctx: &mut TxContext)", "public fun g(s: &signer)",
      "public entry fun h()", "x = x + 1 - 2", "borrow_global_mut<T>(a)",
      "transfer::public_transfer(o, a)", "delete(id)", "use sui::object;",
      "let y = 0;" }

SuiSources == Texts(SuiLines)

RequestCodes == { AbsentCode, NumberCode } \cup { StringCode(text) : text \in SuiSources }

\* analyzeSuiMoveContract is called
CallAnalyzeSuiMoveContract ==
    /\ op = "idle"
    /\ \E code \in SuiSources :
          /\ source' = code
          /\ ret' = Returned(analyzeSuiMoveContract(code))
    /\ op' = "analyzeSuiMoveContract"
    /\ UNCHANGED <<threatsFile, prev>>
    /\ UNCHANGED <<serverVars, pluginVars>>

\* POST /api/analyze is served
PostApiAnalyze ==
    /\ op = "idle"
    /\ \E code \in RequestCodes :
          /\ source' = code.text
          /\ ret' = Returned(AnalyzeResponse(code))
    /\ op' = "POST /api/analyze"
    /\ UNCHANGED <<threatsFile, prev>>
    /\ UNCHANGED <<serverVars, pluginVars>>

NextBackend ==
    \/ CallAnalyzeSuiMoveContract
    \/ PostApiAnalyze
    \/ Done

SpecBackend == InitPlugin /\ [][NextBackend]_vars

----------------------------------------------------------------------------
(* Properties of the comprehensive report *)

\* the number of findings of severity sev, counted over the positions
NumberOf(findings, sev) ==
    Cardinality({ i \in DOMAIN findings : findings[i].severity = sev })

HasReport == op = "performComprehensiveSecurityScan" /\ ~ret.raised

\* C1: the security score of every report is max(0, 100 - 40c - 20h - 10m)
\* for the numbers c, h, m of critical, high and medium findings of the
\* report (low findings do not enter), and so lies between 0 and 100.
ScoringLaw ==
    HasReport =>
        LET c == NumberOf(ret.value.findings, "critical")
            h == NumberOf(ret.value.findings, "high")
            m == NumberOf(ret.value.findings, "medium")
            raw == 100 - 40 * c - 20 * h - 10 * m
        IN /\ ret.value.securityScore = (IF raw < 0 THEN 0 ELSE raw)
           /\ ret.value.securityScore \in 0..100

\* a report whose weighted sum is below 0, with low findings in it
ScoringLawWitness ==
    /\ HasReport
    /\ NumberOf(ret.value.findings, "low") > 0
    /\ 100 - 40 * NumberOf(ret.value.findings, "critical")
           - 20 * NumberOf(ret.value.findings, "high")
           - 10 * NumberOf(ret.value.findings, "medium") < 0
    /\ ret.value.securityScore = 0

\* C2: the risk level is CRITICAL with at least one critical finding,
\* otherwise HIGH with more than 2 high findings, otherwise MEDIUM with more
\* than 3 medium findings, otherwise LOW.
RiskLevelLaw ==
    HasReport =>
        LET c == NumberOf(ret.value.findings, "critical")
            h == NumberOf(ret.value.findings, "high")
            m == NumberOf(ret.value.findings, "medium")
            level == ret.value.risk_level
        IN /\ c >= 1 => level = "CRITICAL"
           /\ (c = 0 /\ h > 2) => level = "HIGH"
           /\ (c = 0 /\ h <= 2 /\ m > 3) => level = "MEDIUM"
           /\ (c = 0 /\ h <= 2 /\ m <= 3) => level = "LOW"

\* a MEDIUM report: no critical, exactly 2 high and more than 3 medium findings
RiskLevelLawWitness ==
    /\ HasReport
    /\ NumberOf(ret.value.findings, "critical") = 0
    /\ NumberOf(ret.value.findings, "high") = 2
    /\ NumberOf(ret.value.findings, "medium") > 3
    /\ ret.value.risk_level = "MEDIUM"

\* C3: the report is deployment-ready exactly when it has no critical and
\* at most 1 high finding, whatever its medium and low findings.
DeploymentReadyLaw ==
    HasReport =>
        (ret.value.deployment_ready
            <=> /\ NumberOf(ret.value.findings, "critical") = 0
                /\ NumberOf(ret.value.findings, "high") <= 1)

\* a deployment-ready report with 1 high finding and medium and low findings
DeploymentReadyLawWitness ==
    /\ HasReport
    /\ ret.value.deployment_ready
    /\ NumberOf(ret.value.findings, "high") = 1
    /\ NumberOf(ret.value.findings, "medium") > 0
    /\ NumberOf(ret.value.findings, "low") > 0

\* C4: a report without findings is deployment-ready, has risk level LOW,
\* no critical issue and the security score 100.
CleanReport ==
    (HasReport /\ ret.value.findings = <<>>) =>
        /\ ret.value.deployment_ready
        /\ ret.value.risk_level = "LOW"
        /\ ret.value.criticalIssues = 0
        /\ ret.value.securityScore = 100
        /\ ret.value.securityScore > 90

\* a report without findings for a source that names a function of the
\* rules, scanned with a catalog of no rules
CleanReportWitness ==
    /\ HasReport
    /\ ret.value.findings = <<>>
    /\ Includes(source, "mint")
    /\ LoadThreats(threatsFile).value.threats = <<>>

----------------------------------------------------------------------------
(* Properties of scanMoveSource *)

\* a step in which scanMoveSource is called
ScanCalled == op' \in {"scanMoveSource", "scanMoveSourceAgain"} /\ op' # op

\* a step in which scanMoveSource is called and returns its findings
ScanReturns == ScanCalled /\ ~ret'.raised

\* the rules of the catalog file as a scan called now loads them
RulesNow == LoadThreats(threatsFile).value.threats

\* the positions of the call tokens of rule t that occur in text src
TokensPresent(t, src) ==
    { i \in DOMAIN t.pattern.function_calls :
          Includes(src, t.pattern.function_calls[i]) }

\* the least whole number that is at least 0.7 * n
CeilSevenTenths(n) == (7 * n + 9) \div 10

HasCallFinding(findings, t) ==
    \E i \in DOMAIN findings :
        findings[i].id = t.id /\ findings[i].function = "Call Pattern"

\* C5: in every scan, a call-flow rule with N tokens of which some declared
\* check is missing in the source is activated (yields its finding) if and
\* only if at least ceil(0.7 * N) of its tokens occur in the full source.
ThresholdLaw ==
    [][ScanReturns =>
          \A k \in DOMAIN RulesNow :
              LET t == RulesNow[k] IN
              (/\ t.has_pattern /\ t.pattern.has_function_calls
               /\ MissingChecksInSource(t, source') # <<>>)
              => (HasCallFinding(ret'.value, t)
                    <=> Cardinality(TokensPresent(t, source'))
                           >= CeilSevenTenths(Len(t.pattern.function_calls)))]_vars

\* the rule of 10 tokens activated with exactly 7 of them in the source, and
\* the rule of 3 tokens not activated with 2 of them
ThresholdLawWitness ==
    /\ op = "scanMoveSource" /\ ~ret.raised
    /\ \E i \in DOMAIN ret.value : ret.value[i].id = "flow_10"
    /\ ~\E i \in DOMAIN ret.value : ret.value[i].id = "flow_3"
    /\ Includes(source, "flash_swap") /\ Includes(source, "get_price")
    /\ ~Includes(source, "borrow") /\ ~Includes(source, "repay")

\* the first characters of ln after its leading blanks are //
RECURSIVE IsCommented(_)
IsCommented(ln) ==
    IF Len(ln) < 2 THEN FALSE
    ELSE IF SubSeq(ln, 1, 1) \in {" ", "\t"} THEN IsCommented(SubSeq(ln, 2, Len(ln)))
    ELSE SubSeq(ln, 1, 2) = "//"

\* text src with its comment lines deleted
RECURSIVE DropCommented(_)
DropCommented(ls) ==
    IF ls = <<>> THEN <<>>
    ELSE (IF IsCommented(Head(ls)) THEN <<>> ELSE <<Head(ls)>>) \o DropCommented(Tail(ls))

WithoutComments(src) == Join(DropCommented(SplitLines(src)), "\n")

FunctionKeyed(findings) == SelectSeq(findings, LAMBDA f : f.line.is_number)

\* C6: in every scan, no function-keyed finding is reported for a comment
\* line, and the function-keyed findings are those of the same text with
\* its comment lines deleted: a comment line neither triggers a rule nor
\* counts as evidence of a check.
CommentExclusion ==
    [][ScanReturns =>
          \A stripped \in {WithoutComments(source')} :
          \A findings \in {FunctionKeyed(ret'.value)} :
             /\ \A i \in DOMAIN findings : ~IsCommented(findings[i].snippet)
             /\ findings = FunctionKeyed(ScanMoveSource(stripped, threatsFile).value)]_vars

\* a scan of a code line naming the function followed by a doc-comment line
\* holding the evidence of the signer check: the findings are those of the
\* code line, the signer check missing
CommentExclusionWitness ==
    /\ op = "scanMoveSource" /\ ~ret.raised
    /\ source = "fun mint(a)\n/// signer::"
    /\ Len(ret.value) = 2
    /\ ret.value[1].id = "open_mint_function"
    /\ ret.value[1].missing_checks = <<"signer_check">>
    /\ ret.value[2].id = "no_max_supply_check"
    /\ \A i \in DOMAIN ret.value : ret.value[i].snippet = "fun mint(a)"

\* C7: scanMoveSource called again with the same source text returns the
\* finding list it returned before.
ScanIdempotent ==
    (op = "scanMoveSourceAgain" /\ ~prev.raised /\ ~ret.raised)
        => ret.value = prev.value

\* C8: when the catalog file cannot be read or is not JSON, loadThreats
\* gives the empty rule set and every scan returns the empty finding list,
\* without throwing.
LoadFailureTolerated ==
    [][(ScanCalled /\ (~threatsFile.readable \/ ~threatsFile.parses))
          => /\ LoadThreats(threatsFile) = Returned(Document(<<>>))
             /\ ~ret'.raised
             /\ ret'.value = <<>>]_vars

\* a scan of a text naming a function of the rules, made while the catalog
\* file is not JSON, that returned the empty list
LoadFailureToleratedWitness ==
    /\ op = "scanMoveSource"
    /\ threatsFile = MalformedFile
    /\ Includes(source, "withdraw")
    /\ ret = Returned(<<>>)

----------------------------------------------------------------------------
(* Properties of the economic and MEV analyzers *)

TypesOf(risks) == [i \in DOMAIN risks |-> risks[i].type]

\* C9: analyzeEconomicSecurity reports flash_loan_risk (high) exactly when
\* the source contains flash_ or borrow and oracle_manipulation (medium)
\* exactly when it contains price or oracle; the level is HIGH iff the first
\* is reported, MEDIUM iff only the second, and LOW with no risks iff none.
EconomicLaw ==
    op = "analyzeEconomicSecurity" =>
        LET r == ret.value
            flash == \E kw \in {"flash_", "borrow"} : Includes(source, kw)
            oracle == \E kw \in {"price", "oracle"} : Includes(source, kw)
            hasFlash == \E i \in DOMAIN r.risks :
                            r.risks[i].type = "flash_loan_risk" /\ r.risks[i].severity = "high"
            hasOracle == \E i \in DOMAIN r.risks :
                            r.risks[i].type = "oracle_manipulation"
                            /\ r.risks[i].severity = "medium"
        IN /\ ~ret.raised
           /\ hasFlash <=> flash
           /\ hasOracle <=> oracle
           /\ Len(r.risks) = (IF flash THEN 1 ELSE 0) + (IF oracle THEN 1 ELSE 0)
           /\ r.risk_level = "HIGH" <=> hasFlash
           /\ r.risk_level = "MEDIUM" <=> (hasOracle /\ ~hasFlash)
           /\ r.risk_level = "LOW" <=> r.risks = <<>>
           /\ r.risks = <<>> <=> (~flash /\ ~oracle)
           /\ source = "" => (r.risk_level = "LOW" /\ r.risks = <<>>)

\* both keyword groups occur: two entries, level HIGH
EconomicLawWitness ==
    /\ op = "analyzeEconomicSecurity"
    /\ Includes(source, "borrow") /\ Includes(source, "oracle")
    /\ TypesOf(ret.value.risks) = <<"flash_loan_risk", "oracle_manipulation">>
    /\ ret.value.risk_level = "HIGH"

\* C10: analyzeMEVRisks adds 30 and arbitrage_opportunity when the source
\* contains swap or exchange, and 40 and frontrunning_risk when it contains
\* auction or bid; the level is HIGH above 50, MEDIUM above 20, else LOW; the
\* score is one of 0, 30, 40, 70, and the empty text gives 0 and LOW.
MevLaw ==
    op = "analyzeMEVRisks" =>
        LET r == ret.value
            dex == \E kw \in {"swap", "exchange"} : Includes(source, kw)
            auction == \E kw \in {"auction", "bid"} : Includes(source, kw)
        IN /\ ~ret.raised
           /\ r.mev_score = (IF dex THEN 30 ELSE 0) + (IF auction THEN 40 ELSE 0)
           /\ r.mev_score \in {0, 30, 40, 70}
           /\ TypesOf(r.risks)
                = (IF dex THEN <<"arbitrage_opportunity">> ELSE <<>>)
                  \o (IF auction THEN <<"frontrunning_risk">> ELSE <<>>)
           /\ r.risk_level = "HIGH" <=> r.mev_score > 50
           /\ r.risk_level = "MEDIUM" <=> (r.mev_score > 20 /\ r.mev_score <= 50)
           /\ r.risk_level = "LOW" <=> r.mev_score <= 20
           /\ source = "" => (r.mev_score = 0 /\ r.risk_level = "LOW")

\* both keyword groups occur: score 70, level HIGH
MevLawWitness ==
    /\ op = "analyzeMEVRisks"
    /\ Includes(source, "exchange") /\ Includes(source, "bid")
    /\ ret.value.mev_score = 70
    /\ ret.value.risk_level = "HIGH"

----------------------------------------------------------------------------
(* Severe findings and the report *)

\* C14 as stated: a report with at least one critical or at least one high
\* finding has a security score below 50 and is not deployment-ready.
SevereReportBlocked ==
    (HasReport /\ (\/ NumberOf(ret.value.findings, "critical") >= 1
                   \/ NumberOf(ret.value.findings, "high") >= 1))
        => /\ ret.value.securityScore < 50
           /\ ~ret.value.deployment_ready

\* C14 as amended: a report with at least one critical or at least two high
\* findings has a security score of at most 60 and is not deployment-ready;
\* a report with no critical and exactly one high finding has a security
\* score of at most 80 and is deployment-ready.
SevereReportLaw ==
    HasReport =>
        LET c == NumberOf(ret.value.findings, "critical")
            h == NumberOf(ret.value.findings, "high")
        IN /\ (c >= 1 \/ h >= 2)
                => (ret.value.securityScore <= 60 /\ ~ret.value.deployment_ready)
           /\ (c = 0 /\ h = 1)
                => (ret.value.securityScore <= 80 /\ ret.value.deployment_ready)

\* a report whose only finding is one high finding: score 80, deployment-ready
SevereReportLawWitness ==
    /\ HasReport
    /\ Len(ret.value.findings) = 1
    /\ ret.value.findings[1].severity = "high"
    /\ ret.value.securityScore = 80
    /\ ret.value.deployment_ready

----------------------------------------------------------------------------
(* Properties of the function-keyed rules *)

\* the substrings that show a check of each of the four kinds
Evidence ==
    [signer_check |-> {"tx_context::sender", "signer::"},
     max_supply_check |-> {"MAX_SUPPLY", "total_supply"},
     reentrancy_guard |-> {"reentrancy_guard", "ReentrancyGuard"},
     type_verification |-> {"assert!", "dynamic_field::exists_with_type"}]

\* the declared checks of rule t, of the four kinds, of which no evidence
\* occurs in text window
WithoutEvidence(t, window) ==
    SelectSeq(t.pattern.missing_checks,
              LAMBDA mc : /\ mc \in DOMAIN Evidence
                          /\ \A e \in Evidence[mc] : ~Includes(window, e))

\* the positions in findings of the findings of rule t for scanned line j
FindingsAt(findings, t, j) ==
    { i \in DOMAIN findings :
          /\ findings[i].id = t.id
          /\ findings[i].line.is_number
          /\ findings[i].line.number = j }

\* C16: in every scan, for every function-keyed rule and every scanned
\* (non-comment) line that contains the rule's function_name, there is
\* exactly one finding for that rule and line if some declared check has
\* none of its evidence substrings in the context window of the line, and no
\* finding otherwise; the finding lists exactly the checks without evidence.
FunctionRuleLaw ==
    [][ScanReturns =>
          \A lines \in {ScannedLines(source')} :
          \A k \in DOMAIN RulesNow :
              LET t == RulesNow[k] IN
              (t.has_pattern /\ t.pattern.function_name # "") =>
                  \A j \in DOMAIN lines :
                      Includes(lines[j], t.pattern.function_name) =>
                          \A expected \in {WithoutEvidence(t, ContextWindow(lines, j - 1))} :
                          \A hits \in {FindingsAt(ret'.value, t, j)} :
                              /\ Cardinality(hits) = (IF expected # <<>> THEN 1 ELSE 0)
                              /\ \A i \in hits :
                                    ret'.value[i].missing_checks = expected]_vars

\* a scan of two lines naming mint, one of them holding total_supply: the
\* rule declaring signer_check and max_supply_check reports the signer check
\* alone on both lines, and the rule declaring max_supply_check alone reports
\* nothing
FunctionRuleLawWitness ==
    /\ op = "scanMoveSource" /\ ~ret.raised
    /\ source = "fun mint(a)\nmint(total_supply)"
    /\ \A j \in 1..2 :
          \E i \in DOMAIN ret.value :
              /\ ret.value[i].id = "open_mint_function"
              /\ ret.value[i].line = NumberLine(j)
              /\ ret.value[i].missing_checks = <<"signer_check">>
    /\ \E i \in DOMAIN ret.value : ret.value[i].id = "mint_reentrancy"
    /\ ~\E i \in DOMAIN ret.value : ret.value[i].id = "mint_without_cap"

\* C18: the line of every function-keyed finding is the 1-based number, in
\* the source text passed to the scan, of the line that matched: the line of
\* the source with that number is the finding's line (its trimmed text is the
\* snippet) and contains the function name.
LineInSource ==
    (op \in {"scanMoveSource", "scanMoveSourceAgain"} /\ ~ret.raised) =>
        \A i \in DOMAIN ret.value :
            ret.value[i].line.is_number =>
                LET n == ret.value[i].line.number
                    sourceLines == SplitLines(source)
                IN /\ n \in DOMAIN sourceLines
                   /\ Trim(sourceLines[n]) = ret.value[i].snippet
                   /\ Includes(sourceLines[n], ret.value[i].function)

----------------------------------------------------------------------------
(* Properties of the call-flow rules *)

ScanDone == op \in {"scanMoveSource", "scanMoveSourceAgain"} /\ ~ret.raised

\* C19: on an activated call-flow rule a declared check counts as present
\* whenever the full source contains one of the evidence substrings of its
\* kind: no call-flow finding lists a check of which the source holds
\* evidence.
EvidenceCountsInSource ==
    ScanDone =>
        \A i \in DOMAIN ret.value :
            ~ret.value[i].line.is_number =>
                \A k \in DOMAIN ret.value[i].missing_checks :
                    LET check == ret.value[i].missing_checks[k] IN
                    check \in DOMAIN Evidence =>
                        \A e \in Evidence[check] : ~Includes(source, e)

\* name with every underscore removed
RECURSIVE StripUnderscores(_)
StripUnderscores(name) ==
    IF name = "" THEN ""
    ELSE (IF SubSeq(name, 1, 1) = "_" THEN "" ELSE SubSeq(name, 1, 1))
         \o StripUnderscores(SubSeq(name, 2, Len(name)))

\* C20: on an activated call-flow rule a declared check counts as present
\* whenever the full source contains its name with all underscores removed:
\* no call-flow finding lists a check whose stripped name is in the source.
StrippedNameCounts ==
    ScanDone =>
        \A i \in DOMAIN ret.value :
            ~ret.value[i].line.is_number =>
                \A k \in DOMAIN ret.value[i].missing_checks :
                    ~Includes(source, StripUnderscores(ret.value[i].missing_checks[k]))

----------------------------------------------------------------------------
(* The extent of the context window *)

\* C17: the context window of a matched line is the matched line, the 5
\* scanned lines before it and the 10 scanned lines after it, clamped to the
\* text: in every scan, a function-keyed rule reports a matched line exactly
\* when some declared check has no evidence on any of these lines, so that
\* evidence on the 10th line after the match counts as the check present.
WindowTenAfter ==
    [][ScanReturns =>
          \A lines \in {ScannedLines(source')} :
          \A k \in DOMAIN RulesNow :
              LET t == RulesNow[k] IN
              (t.has_pattern /\ t.pattern.function_name # "") =>
                  \A j \in DOMAIN lines :
                      Includes(lines[j], t.pattern.function_name) =>
                          LET window == { p \in DOMAIN lines : p >= j - 5 /\ p <= j + 10 }
                              missing(check) ==
                                  /\ check \in DOMAIN Evidence
                                  /\ \A p \in window : \A e \in Evidence[check] :
                                        ~Includes(lines[p], e)
                          IN (FindingsAt(ret'.value, t, j) # {})
                                <=> \E c \in DOMAIN t.pattern.missing_checks :
                                       missing(t.pattern.missing_checks[c])]_vars

----------------------------------------------------------------------------
(* Properties of the server *)

\* the findings of severity sev, in their order
RECURSIVE OfSeverity(_, _)
OfSeverity(findings, sev) ==
    IF findings = <<>> THEN <<>>
    ELSE (IF Head(findings).severity = sev THEN <<Head(findings)>> ELSE <<>>)
         \o OfSeverity(Tail(findings), sev)

HasAuditPayload ==
    apiPc = "responded" /\ request.endpoint = "audit" /\ response.status = 200

\* C11: in the audit payload safe_to_deploy is true exactly when the
\* deployment-ready flag of the comprehensive scan is true and the economic
\* risk level is not HIGH; required_fixes are the critical findings and
\* optimization_suggestions the medium findings of that scan, in scan order.
AuditRecommendation ==
    HasAuditPayload =>
        LET scan == response.security_analysis
            advice == response.deployment_recommendation
        IN /\ advice.safe_to_deploy
                <=> (scan.deployment_ready /\ response.economic_risks.risk_level # "HIGH")
           /\ advice.required_fixes = OfSeverity(scan.findings, "critical")
           /\ advice.optimization_suggestions = OfSeverity(scan.findings, "medium")

\* a payload whose scan is deployment-ready with one high and one medium
\* finding while the economic risk level is HIGH: not safe to deploy, one
\* optimization suggestion, no required fix
AuditRecommendationWitness ==
    /\ HasAuditPayload
    /\ response.security_analysis.deployment_ready
    /\ response.economic_risks.risk_level = "HIGH"
    /\ ~response.deployment_recommendation.safe_to_deploy
    /\ Len(response.security_analysis.findings) = 2
    /\ Len(response.deployment_recommendation.optimization_suggestions) = 1
    /\ response.deployment_recommendation.required_fixes = <<>>

\* C12: every request to /api/generate whose trimmed prompt (the prompt
\* being a string, or missing) is not one of the three allowed prompts is
\* answered 400 with ok false and the list of the allowed prompts, and no
\* model call, scan or file write is made for it.
InvalidPromptRejected ==
    (/\ request.endpoint = "generate"
     /\ request.prompt.kind \in {"absent", "string"}
     /\ ~\E k \in DOMAIN AllowedPrompts :
            AllowedPrompts[k] = PromptText(request.prompt).value)
        => /\ apiPc = "responded"
           /\ response.status = 400
           /\ ~response.ok
           /\ response.allowed_prompts = AllowedPrompts
           /\ effects = <<>>

\* the number of critical findings of the comprehensive scan of code with
\* the catalog file as it is, -1 when the scan throws
CriticalNow(code) ==
    IF PerformComprehensiveSecurityScan(code, threatsFile).raised THEN -1
    ELSE NumberOf(PerformComprehensiveSecurityScan(code, threatsFile).value.findings,
                  "critical")

\* a step in which the handler of /api/generate resumes after the model call
GenerateResumes == apiPc = "awaitingModel" /\ apiPc' # apiPc

\* C13: on the model-generation path of /api/generate a file is written
\* only after a scan of the written code that reports no critical issue, and
\* code whose scan reports a critical issue is not written and not returned
\* as a success: the answer is 400 with ok false and the security report.
GeneratedCodeGate ==
    [][GenerateResumes =>
          /\ \A i \in DOMAIN effects' :
                effects'[i].kind = "write" =>
                    /\ \E j \in 1..(i - 1) :
                          /\ effects'[j].kind = "scan"
                          /\ effects'[j].text = effects'[i].text
                          /\ effects'[j].criticalIssues = 0
                    /\ CriticalNow(effects'[i].text) = 0
          /\ \A j \in DOMAIN effects' :
                (effects'[j].kind = "scan" /\ CriticalNow(effects'[j].text) >= 1) =>
                    /\ apiPc' = "responded"
                    /\ response'.status = 400
                    /\ ~response'.ok
                    /\ response'.security_report.present
                    /\ response'.security_report.value.criticalIssues >= 1
                    /\ ~\E i \in DOMAIN effects' : effects'[i].kind = "write"
          /\ (apiPc' = "responded" /\ response'.ok /\ ~response'.fallback_used) =>
                /\ CriticalNow(response'.generated_code) = 0
                /\ \E i \in DOMAIN effects' :
                      effects'[i] = WriteEffect(response'.file, response'.generated_code)]_vars

\* generated code with one critical finding was scanned, answered 400 with
\* the report, and not written
GeneratedCodeGateWitness ==
    /\ apiPc = "responded" /\ request.endpoint = "generate"
    /\ response.status = 400
    /\ response.security_report.present
    /\ response.security_report.value.criticalIssues = 1
    /\ [i \in DOMAIN effects |-> effects[i].kind] = <<"model", "scan">>
    /\ effects[2].text = "withdraw(a)"

----------------------------------------------------------------------------
(* Properties of the editor extension *)

\* C15: analyzeContract never rejects; whenever the backend is unavailable
\* (the request emits an error, or the body of the response is not valid
\* JSON) it resolves with the built-in mock issues, and with the issues of
\* the backend when the response carries an issue list.
AnalyzeNeverRejects ==
    \A r \in RunIds :
        runs[r].pc = "done" =>
            /\ runs[r].outcome.settled = "resolved"
            /\ (\/ runs[r].event.kind = "error"
                \/ (runs[r].event.kind = "end" /\ runs[r].event.body.kind = "invalid"))
                   => runs[r].outcome.issues = MockIssues
            /\ (runs[r].event.kind = "end" /\ runs[r].event.body.kind = "issues")
                   => runs[r].outcome.issues = runs[r].event.body.issues

\* one run ended on a body that is not JSON and resolved with the six mock
\* issues while another run resolved with the two issues of the backend
AnalyzeNeverRejectsWitness ==
    \E r, q \in RunIds :
        /\ runs[r].pc = "done"
        /\ runs[r].event = EndEvent(InvalidBody)
        /\ Len(runs[r].outcome.issues) = 6
        /\ runs[r].outcome.issues[2].line = 13
        /\ runs[q].pc = "done"
        /\ Len(runs[q].outcome.issues) = 2

----------------------------------------------------------------------------
(* The findings of the call-flow rules *)

\* the positions in findings of the call-flow findings of rule t
CallFindingsOf(findings, t) ==
    { i \in DOMAIN findings :
          findings[i].id = t.id /\ findings[i].function = "Call Pattern" }

\* rule t is activated by text src: at least 70% of its tokens occur
Activated(t, src) ==
    Cardinality(TokensPresent(t, src)) * 10 >= Len(t.pattern.function_calls) * 7

\* the call-flow matcher finds check present in text src: by its name, or by
\* its name less its underscore
NamedIn(src, check) ==
    \/ Includes(src, check)
    \/ \E k \in 1..Len(check) :
          /\ SubSeq(check, k, k) = "_"
          /\ ~\E j \in 1..(k - 1) : SubSeq(check, j, j) = "_"
          /\ Includes(src, SubSeq(check, 1, k - 1) \o SubSeq(check, k + 1, Len(check)))

----------------------------------------------------------------------------
(* The order of the findings *)

\* the position in the catalog of the rule with the id of finding f
RuleOf(rules, f) == CHOOSE k \in DOMAIN rules : rules[k].id = f.id

\* the pairs of a function-keyed rule and a scanned line on which the rule
\* is triggered: the line contains the function name and some declared
\* check has no evidence in its context
Triggered(rules, lines) ==
    { <<k, j>> \in (DOMAIN rules) \X (DOMAIN lines) :
          /\ rules[k].has_pattern /\ rules[k].pattern.function_name # ""
          /\ Includes(lines[j], rules[k].pattern.function_name)
          /\ WithoutEvidence(rules[k], ContextWindow(lines, j - 1)) # <<>> }

\* C22: in every scan the findings stand in the order of their rules in the
\* catalog and, within a rule, by ascending line; nothing is deduplicated:
\* every triggered pair of rule and line has its own finding, so a line
\* matching two rules yields two findings and a rule matching two lines
\* yields two findings.
FindingOrder ==
    [][ScanReturns =>
          \A found \in {ret'.value} :
          \A rules \in {RulesNow} :
             /\ \A i, j \in DOMAIN found :
                   i < j =>
                       /\ RuleOf(rules, found[i]) <= RuleOf(rules, found[j])
                       /\ (/\ RuleOf(rules, found[i]) = RuleOf(rules, found[j])
                           /\ found[i].line.is_number /\ found[j].line.is_number)
                             => found[i].line.number < found[j].line.number
             /\ { <<RuleOf(rules, found[i]), found[i].line.number>> :
                     i \in { n \in DOMAIN found : found[n].line.is_number } }
                  = Triggered(rules, ScannedLines(source'))
             /\ Cardinality({ n \in DOMAIN found : found[n].line.is_number })
                  = Cardinality(Triggered(rules, ScannedLines(source')))]_vars

\* a scan in which one line has findings of two rules and one rule has
\* findings on two lines
FindingOrderWitness ==
    /\ op = "scanMoveSource" /\ ~ret.raised
    /\ \E i, j \in DOMAIN ret.value :
          /\ i < j
          /\ ret.value[i].line = NumberLine(1) /\ ret.value[j].line = NumberLine(1)
          /\ ret.value[i].id # ret.value[j].id
    /\ \E i, j \in DOMAIN ret.value :
          /\ i < j
          /\ ret.value[i].id = ret.value[j].id
          /\ ret.value[i].line = NumberLine(1) /\ ret.value[j].line = NumberLine(2)

----------------------------------------------------------------------------
(* C23 *)

\* rule k of the rule set violates a validation invariant: an empty id or
\* one another rule has too, a severity outside the four values, a null
\* pattern, a recommendation or a fix of no more than 5 characters
InvalidRule(rules, k) ==
    \/ rules[k].id = ""
    \/ \E other \in DOMAIN rules : other # k /\ rules[other].id = rules[k].id
    \/ rules[k].severity \notin {"critical", "high", "medium", "low"}
    \/ ~rules[k].has_pattern
    \/ Len(rules[k].recommendation) <= 5
    \/ Len(rules[k].fix) <= 5

\* finding f carries what rule t gives its findings
CarriedFrom(f, t) ==
    /\ f.id = t.id
    /\ f.severity = t.severity
    /\ f.recommendation = t.recommendation
    /\ f.fix = t.fix

\* the findings of the result of the call made in this step
FindingsReturned ==
    IF op' = "performComprehensiveSecurityScan" THEN ret'.value.findings
    ELSE ret'.value

\* a step in which a scan or a comprehensive scan is called and returns
ScanOrReportReturns ==
    /\ op' # op
    /\ op' \in {"scanMoveSource", "scanMoveSourceAgain",
                "performComprehensiveSecurityScan"}
    /\ ~ret'.raised

\* C23: a catalog rule that violates a validation invariant is rejected
\* before use: no finding of a scan or of a report comes from such a rule,
\* and so none enters the counts and the score of a report.
InvalidRulesRejected ==
    [][ScanOrReportReturns =>
          \A rules \in {RulesNow} : \A findings \in {FindingsReturned} :
             \A i \in DOMAIN findings : \A k \in DOMAIN rules :
                CarriedFrom(findings[i], rules[k]) => ~InvalidRule(rules, k)]_vars

----------------------------------------------------------------------------
(* C24 *)

\* scanMoveSource has been called and its result is at hand
ScanCalledNow == op \in {"scanMoveSource", "scanMoveSourceAgain"}

\* C24: the catalog is loaded once and then stays fixed: whatever is written
\* to the catalog file between or during scans, every scan of the process
\* evaluates the rule set loaded at start, so its result is the one the scan
\* of the same source gives with the catalog of the start.
CatalogLoadedOnce ==
    ScanCalledNow => ret = ScanMoveSource(source, StartFile)

----------------------------------------------------------------------------
(* C25 *)

\* the pattern of rule t has neither function_name nor function_calls
Unrecognized(t) ==
    /\ t.has_pattern
    /\ t.pattern.function_name = ""
    /\ ~t.pattern.has_function_calls

\* the catalog file holding the rules less the one at position k
FileWithout(rules, k) ==
    ReadableFile(Document(SubSeq(rules, 1, k - 1) \o SubSeq(rules, k + 1, Len(rules))))

\* C25: a rule whose pattern has neither function_name nor function_calls
\* is a no-op in scanning: no finding of any scan carries its id, and the
\* findings are those the scan gives with that rule taken out of the
\* catalog.
UnrecognizedShapeNoOp ==
    [][ScanReturns =>
          \A rules \in {RulesNow} : \A k \in DOMAIN rules :
             Unrecognized(rules[k]) =>
                /\ \A i \in DOMAIN ret'.value : ret'.value[i].id # rules[k].id
                /\ ret'.value = ScanMoveSource(source', FileWithout(rules, k)).value]_vars

\* a scan with findings under a catalog that holds two rules of such shapes,
\* one of them declaring checks
UnrecognizedShapeNoOpWitness ==
    /\ ScanDone
    /\ ret = ScanMoveSource(source, threatsFile)
    /\ Len(ret.value) >= 2
    /\ \E k \in DOMAIN RulesNow :
          Unrecognized(RulesNow[k]) /\ RulesNow[k].pattern.has_missing_checks
    /\ \E k \in DOMAIN RulesNow :
          Unrecognized(RulesNow[k]) /\ ~RulesNow[k].pattern.has_missing_checks

----------------------------------------------------------------------------
(* C26 *)

\* sequence s is obtained from sequence t by deleting elements
RECURSIVE IsSubsequence(_, _)
IsSubsequence(s, t) ==
    IF s = <<>> THEN TRUE
    ELSE IF t = <<>> THEN FALSE
    ELSE IF Head(s) = Head(t) THEN IsSubsequence(Tail(s), Tail(t))
    ELSE IsSubsequence(s, Tail(t))

\* C26: every finding a scan returns has a non-empty missing_checks list,
\* and that list is an order-preserving subsequence of the missing_checks
\* declared by a catalog rule with the id and severity of the finding.
MissingChecksDeclared ==
    [][ScanReturns =>
          \A rules \in {RulesNow} : \A i \in DOMAIN ret'.value :
             /\ ret'.value[i].missing_checks # <<>>
             /\ \E k \in DOMAIN rules :
                   /\ rules[k].id = ret'.value[i].id
                   /\ rules[k].severity = ret'.value[i].severity
                   /\ rules[k].has_pattern /\ rules[k].pattern.has_missing_checks
                   /\ IsSubsequence(ret'.value[i].missing_checks,
                                    rules[k].pattern.missing_checks)]_vars

\* a function-keyed finding that lists the second of two declared checks
\* only
MissingChecksDeclaredWitness ==
    /\ ScanDone
    /\ ret = ScanMoveSource(source, threatsFile)
    /\ \E i \in DOMAIN ret.value : \E k \in DOMAIN RulesNow :
          /\ RulesNow[k].id = ret.value[i].id
          /\ ret.value[i].line.is_number
          /\ RulesNow[k].pattern.missing_checks = <<"signer_check", "reentrancy_guard">>
          /\ ret.value[i].missing_checks = <<"reentrancy_guard">>

----------------------------------------------------------------------------
(* C27 *)

\* the kinds of check the line/context matcher tests
TestedKinds ==
    {"signer_check", "max_supply_check", "reentrancy_guard", "type_verification"}

\* rule t is keyed on a function and declares checks of other kinds only
OnlyUntestedKinds(t) ==
    /\ t.has_pattern /\ t.pattern.function_name # ""
    /\ t.pattern.has_missing_checks /\ t.pattern.missing_checks # <<>>
    /\ \A c \in DOMAIN t.pattern.missing_checks :
          t.pattern.missing_checks[c] \notin TestedKinds

\* C27: a function-keyed rule whose declared missing_checks are all of kinds
\* other than signer_check, max_supply_check, reentrancy_guard and
\* type_verification never produces a function-keyed finding, whatever the
\* source contains.
UntestedKindsSilent ==
    [][ScanReturns =>
          \A rules \in {RulesNow} : \A k \in DOMAIN rules :
             OnlyUntestedKinds(rules[k]) =>
                \A i \in DOMAIN ret'.value :
                   ~(/\ ret'.value[i].line.is_number
                     /\ ret'.value[i].id = rules[k].id)]_vars

\* a scan of a source with a line that names the function of such a rule and
\* holds none of the names of its checks, other rules reporting that line
UntestedKindsSilentWitness ==
    /\ ScanDone
    /\ ret = ScanMoveSource(source, threatsFile)
    /\ ret.value # <<>>
    /\ \E k \in DOMAIN RulesNow : \E j \in DOMAIN ScannedLines(source) :
          /\ OnlyUntestedKinds(RulesNow[k])
          /\ Includes(ScannedLines(source)[j], RulesNow[k].pattern.function_name)
          /\ ~Includes(source, "shift_limit")
          /\ ret.value[1].line = NumberLine(j)

----------------------------------------------------------------------------
(* C28 *)

\* C28: in every comprehensive report, deployment_ready = true implies that
\* risk_level is LOW or MEDIUM and that criticalIssues = 0; a report with
\* risk_level CRITICAL or HIGH is never deployment-ready.
ReadyImpliesModerateRisk ==
    HasReport =>
       /\ ret.value.deployment_ready =>
             /\ ret.value.risk_level \in {"LOW", "MEDIUM"}
             /\ ret.value.criticalIssues = 0
       /\ ret.value.risk_level \in {"CRITICAL", "HIGH"} =>
             ~ret.value.deployment_ready

\* a deployment-ready report with a high finding and medium findings
ReadyImpliesModerateRiskWitness ==
    /\ HasReport
    /\ ret.value.deployment_ready
    /\ ret.value.highIssues = 1
    /\ ret.value.mediumIssues >= 1
    /\ ret.value.risk_level = "LOW"

----------------------------------------------------------------------------
(* C29 *)

\* run r completes in this step: runCoreAnalysis leaves its await and ends
Completing(r) == runs[r].pc = "done" /\ runs'[r].pc = "idle"

\* the diagnostic collection that holds the issues of a run for the document
\* of that run and nothing else
CollectionOf(code, issues) ==
    [uri \in Uris |->
        IF uri = UriOf(code)
        THEN [i \in DOMAIN issues |->
                [line |-> issues[i].line - 1, end |-> 1000,
                 message |-> issues[i].message \o ". " \o issues[i].suggestion,
                 severity |-> IF issues[i].severity = "error" THEN "Error"
                              ELSE "Warning",
                 code |-> "core-analyzer"]]
        ELSE <<>>]

----------------------------------------------------------------------------
(* C30 *)

\* the entries of the two pattern tables
AllPractices == suiVulnerabilityPatterns \o suiBestPracticePatterns

\* the pattern of the entry matches somewhere on the line
MatchesOn(practice, line) == GlobalMatches(practice.pattern, line, 1) # <<>>

\* C30: analyzeSuiMoveContract never returns an empty list: when no pattern
\* of the two tables matches any line it returns the three sample issues of
\* lines 15, 28 and 45, and otherwise the line of every issue is the 1-based
\* index of a line on which the pattern of its entry matches; a 200 response
\* of POST /api/analyze carries at least one issue.
NeverEmptyIssues ==
    /\ op = "analyzeSuiMoveContract" =>
          \A lines \in {SplitLines(source)} :
             /\ ret.value # <<>>
             /\ IF \A j \in DOMAIN lines : \A p \in DOMAIN AllPractices :
                      ~MatchesOn(AllPractices[p], lines[j])
                THEN /\ Len(ret.value) = 3
                     /\ ret.value[1].line = 15
                     /\ ret.value[2].line = 28
                     /\ ret.value[3].line = 45
                ELSE \A i \in DOMAIN ret.value :
                        /\ ret.value[i].line \in DOMAIN lines
                        /\ \E p \in DOMAIN AllPractices :
                              /\ AllPractices[p].message = ret.value[i].message
                              /\ MatchesOn(AllPractices[p], lines[ret.value[i].line])
    /\ (op = "POST /api/analyze" /\ ret.value.status = 200) =>
          Len(ret.value.issues) >= 1

\* a code of two lines none of which any pattern matches, answered with the
\* three sample issues
NeverEmptyIssuesWitness ==
    /\ op = "analyzeSuiMoveContract"
    /\ Len(SplitLines(source)) = 2
    /\ \A j \in DOMAIN SplitLines(source) : \A p \in DOMAIN AllPractices :
          ~MatchesOn(AllPractices[p], SplitLines(source)[j])
    /\ ret.value = SampleIssues

====
